---- MODULE Spec2Model ----
(***************************************************************************)
(* LearnNest server: the request-authorization pipeline                    *)
(* (verifyFirebaseToken -> verifyAdmin / verifyTeacher -> handler) in      *)
(* front of the route handlers, over the users and all-class collections.  *)
(* A request is a task that takes one step per await of its code; the      *)
(* store is shared by all requests.                                        *)
(***************************************************************************)
EXTENDS Integers, Sequences, FiniteSets, TLC

VARIABLES snapshot, users, classes, teacherRequests, enrolls, intents,
          nextId, clock, reqs

vars == <<snapshot, users, classes, teacherRequests, enrolls, intents,
         nextId, clock, reqs>>

\* ------------------------------------------------------------- bounds

\* requests the server receives in one behaviour
MaxReq == 2

\* requests of the PATCH /enrolled-update/:id scenario
MaxEnrollReq == 3

\* requests of the class listing scenario
MaxListReq == 2

\* requests of the user search scenario
MaxSearchReq == 2

\* requests of the payment scenario
MaxPayReq == 2

\* requests of the teacher request scenario
MaxTeacherReq == 2

MaxClassReq == 2

MaxRoleReq == 2

MaxDeleteReq == 2

\* ------------------------------------------------------------- values

None == "undefined"

Emails == {"a@x.com", "b@x.com"}

\* a JavaScript string value or undefined
Undefined == [def |-> FALSE, chars |-> <<>>]

Str(s) == [def |-> TRUE, chars |-> s]

\* !x for a string-or-undefined value: undefined and '' are falsy
Falsy(x) == ~x.def \/ x.chars = <<>>

StartsWith(s, p) == Len(s) >= Len(p) /\ SubSeq(s, 1, Len(p)) = p

RECURSIVE Split(_, _)
\* String.prototype.split(sep) for a one-character separator
Split(s, sep) ==
  IF \A i \in 1..Len(s) : s[i] # sep
  THEN <<s>>
  ELSE LET i == CHOOSE k \in 1..Len(s) :
                  s[k] = sep /\ \A j \in 1..(k - 1) : s[j] # sep
       IN <<SubSeq(s, 1, i - 1)>> \o Split(SubSeq(s, i + 1, Len(s)), sep)

\* authHeader.split(' ')[1]
SplitToken(s) ==
  LET parts == Split(s, " ")
  IN IF Len(parts) >= 2 THEN Str(parts[2]) ELSE Undefined

BearerPrefix == <<"B", "e", "a", "r", "e", "r", " ">>

TokA == <<"t", "a">>

TokB == <<"t", "b">>

TokBad == <<"z">>

\* Authorization headers a client can send
Headers ==
  { Undefined,
    Str(<<>>),
    Str(<<"B", "e", "a", "r", "e", "r">>),
    Str(BearerPrefix),
    Str(<<"B", "a", "s", "i", "c", " ">> \o TokA),
    Str(BearerPrefix \o <<" ">> \o TokA),
    Str(BearerPrefix \o TokA),
    Str(BearerPrefix \o TokB),
    Str(BearerPrefix \o TokBad) }

\* admin.auth().verifyIdToken(token): the decoded claims of a token the
\* identity provider issued, or a rejection (unknown token, or the provider
\* cannot be reached)
VerifyIdToken(token) ==
  {[ok |-> FALSE, email |-> None]} \cup
  (IF token = TokA THEN {[ok |-> TRUE, email |-> "a@x.com"]} ELSE {}) \cup
  (IF token = TokB THEN {[ok |-> TRUE, email |-> "b@x.com"]} ELSE {})

\* a JavaScript number: an integer or NaN
NaN == [nan |-> TRUE, val |-> 0]

Num(n) == [nan |-> FALSE, val |-> n]

DigitValue ==
  "0" :> 0 @@ "1" :> 1 @@ "2" :> 2 @@ "3" :> 3 @@ "4" :> 4 @@
  "5" :> 5 @@ "6" :> 6 @@ "7" :> 7 @@ "8" :> 8 @@ "9" :> 9

\* the number of decimal digits s starts with
LeadingDigits(s) ==
  IF \A i \in 1..Len(s) : s[i] \in DOMAIN DigitValue
  THEN Len(s)
  ELSE (CHOOSE k \in 1..Len(s) :
          s[k] \notin DOMAIN DigitValue
          /\ \A j \in 1..(k - 1) : s[j] \in DOMAIN DigitValue) - 1

RECURSIVE Decimal(_)
\* the value of a sequence of decimal digits
Decimal(s) ==
  IF s = <<>> THEN 0
  ELSE 10 * Decimal(SubSeq(s, 1, Len(s) - 1)) + DigitValue[s[Len(s)]]

\* parseInt(x) for a string-or-undefined value: an optional sign, then the
\* leading decimal digits; NaN when there is none
ParseInt(x) ==
  LET signed == x.def /\ x.chars # <<>> /\ Head(x.chars) \in {"-", "+"}
      digits == IF signed THEN Tail(x.chars) ELSE x.chars
      n == LeadingDigits(digits)
      v == Decimal(SubSeq(digits, 1, n))
  IN IF ~x.def \/ n = 0 THEN NaN
     ELSE IF signed /\ Head(x.chars) = "-" THEN Num(0 - v) ELSE Num(v)

\* a || b for numbers: NaN and 0 are falsy
OrElse(a, b) == IF a.nan \/ a.val = 0 THEN b ELSE a

\* variant: the quotient rounded down
Ceil_Floor(a, b) == a \div b

\* Math.ceil(a / b) for a >= 0 and b > 0
Ceil(a, b) == (a + b - 1) \div b

\* the characters of the email addresses
EmailChars ==
  "a@x.com" :> <<"a", "@", "x", ".", "c", "o", "m">> @@
  "b@x.com" :> <<"b", "@", "x", ".", "c", "o", "m">>

\* the lower-case form of a character
Lower(c) == IF c = "A" THEN "a" ELSE IF c = "B" THEN "b" ELSE c

\* new RegExp(pattern, 'i') throws a SyntaxError on an unbalanced group
RegExpThrows(x) == x.def /\ \E i \in 1..Len(x.chars) : x.chars[i] \in {"(", ")"}

\* regex.test(s) for a pattern of literal characters and '.', flag 'i'
RegExpTest(pattern, s) ==
  \E k \in 0..(Len(s) - Len(pattern)) :
    \A i \in 1..Len(pattern) :
      pattern[i] = "." \/ Lower(pattern[i]) = Lower(s[k + i])

\* ------------------------------------------------------------- the store

\* the id string of a request that is no ObjectId: new ObjectId(id) throws
BadId == 0

NullUser ==
  [id |-> 0, email |-> None, role |-> None, status |-> None,
   create_at |-> 0, last_loggedIn |-> 0]

UserDoc(id, email, role, status) ==
  [id |-> id, email |-> email, role |-> role, status |-> status,
   create_at |-> 0, last_loggedIn |-> 0]

\* contents of the users collection when the server starts
InitUsers ==
  { <<>>,
    <<UserDoc(1, "a@x.com", "admin", "verified")>>,
    <<UserDoc(1, "a@x.com", "admin", "verified"),
      UserDoc(2, "b@x.com", "student", "not-verified")>>,
    <<UserDoc(1, "a@x.com", "admin", "verified"),
      UserDoc(2, "b@x.com", "teacher", "verified")>> }

\* contents of the all-class collection when the server starts
InitClasses ==
  <<[id |-> 3, email |-> "b@x.com", status |-> "approved", enrolled |-> 0,
     price |-> 10]>>

FirstId == 4

\* an id string that is a well-formed ObjectId of no document; it is also what
\* new ObjectId(undefined) makes
NoId == 9

\* what findOne answers when no teacher request matches
NullRequest ==
  [id |-> 0, email |-> None, status |-> None, create_at |-> 0,
   last_request_at |-> 0]

\* what findOne answers when no class matches
NullClass ==
  [id |-> 0, email |-> None, status |-> None, enrolled |-> -1, price |-> -1]

ClassDoc(id, status, enrolled) ==
  [id |-> id, email |-> "b@x.com", status |-> status, enrolled |-> enrolled,
   price |-> 10]

\* all-class with a class no admin has approved yet and an approved class
FewClasses == <<ClassDoc(3, "pending", 0), ClassDoc(101, "approved", 0)>>

\* all-class with thirteen approved classes, a pending one and a rejected one
ManyClasses ==
  [i \in 1..15 |->
     ClassDoc(IF i = 1 THEN 3 ELSE 100 + i,
              IF i = 1 THEN "pending" ELSE IF i = 9 THEN "rejected" ELSE "approved",
              0)]

\* an equality filter { field: value }
Eq(field, value) == [op |-> "eq", field |-> field, value |-> value]

\* { field: { $ne: value } }
Ne(field, value) == [op |-> "ne", field |-> field, value |-> value]

\* { field: { $gt: value } }; a missing number field is stored as -1 here
\* and is greater than nothing
Gt(field, value) == [op |-> "gt", field |-> field, value |-> value]

\* { field: { $regex: regex } } with the source of the regex as value
Regex(field, value) == [op |-> "regex", field |-> field, value |-> value]

\* the empty filter of find()
All == [op |-> "all", field |-> "id", value |-> 0]

Matches(doc, filter) ==
  CASE filter.op = "eq" -> doc[filter.field] = filter.value
    [] filter.op = "ne" -> doc[filter.field] # filter.value
    [] filter.op = "gt" -> doc[filter.field] > filter.value
    [] filter.op = "regex" ->
         RegExpTest(filter.value, EmailChars[doc[filter.field]])
    [] OTHER -> TRUE

\* index of the first document of coll (in natural order) the filter
\* matches, 0 when there is none
FirstIdx(coll, filter) ==
  IF \E i \in 1..Len(coll) : Matches(coll[i], filter)
  THEN CHOOSE i \in 1..Len(coll) :
         Matches(coll[i], filter) /\ \A j \in 1..(i - 1) : ~Matches(coll[j], filter)
  ELSE 0

\* collection.findOne(filter): the first matching document or null
FindOne(coll, filter, null) ==
  LET i == FirstIdx(coll, filter) IN IF i = 0 THEN null ELSE coll[i]

\* a document after { $set: set }
Set(doc, set) ==
  [f \in DOMAIN doc |-> IF f \in DOMAIN set THEN set[f] ELSE doc[f]]

\* collection.updateOne(filter, { $set: set }): the first matching document
\* changed
UpdateOne(coll, filter, set) ==
  LET i == FirstIdx(coll, filter)
  IN IF i = 0 THEN coll ELSE [coll EXCEPT ![i] = Set(@, set)]

\* collection.countDocuments(filter)
Count(coll, filter) ==
  Cardinality({i \in 1..Len(coll) : Matches(coll[i], filter)})

\* collection.find(filter).toArray(): the matching documents in natural order
Find(coll, filter) == SelectSeq(coll, LAMBDA doc : Matches(doc, filter))

\* cursor.skip(n).limit(m) over the documents a find matches
SkipLimit(docs, n, m) ==
  SubSeq(docs, n + 1, IF n + m < Len(docs) THEN n + m ELSE Len(docs))

\* the orders cursor.sort({ enrolled: -1 }) can deliver: descending, the
\* order of documents with equal keys is up to the store
SortedByEnrolled(docs) ==
  {[i \in 1..Len(docs) |-> docs[p[i]]] :
     p \in {f \in [1..Len(docs) -> 1..Len(docs)] :
              /\ \A i, j \in 1..Len(docs) : i # j => f[i] # f[j]
              /\ \A i, j \in 1..Len(docs) :
                   i < j => docs[f[i]].enrolled >= docs[f[j]].enrolled}}

\* variant: insertOne under a unique index on email, the duplicate dropped
InsertOne_UniqueEmail(coll, doc) ==
  IF \E i \in 1..Len(coll) : coll[i].email = doc.email
  THEN coll
  ELSE Append(coll, doc)

\* collection.insertOne(doc): no unique index exists on any collection
InsertOne(coll, doc) == Append(coll, doc)

\* ------------------------------------------------------------- routes

Snapshots == {"S0", "S1", "S2", "S3", "S4", "S5"}

VFT == "verifyFirebaseToken"

VA == "verifyAdmin"

VT == "verifyTeacher"

H == "handler"

\* the layers each route registers, in declaration order, per snapshot
ChainS0 == "POST /user" :> <<H>> @@ "GET /" :> <<H>>

ChainS1 ==
  "GET /users/search" :> <<H>> @@
  "POST /user" :> <<H>> @@
  "PATCH /make-admin/:id" :> <<H>> @@
  "POST /teacher-request" :> <<H>> @@
  "GET /all-request" :> <<H>> @@
  "PATCH /teacher-request-status/:id" :> <<H>> @@
  "GET /" :> <<H>>

ChainS2 ==
  "GET /users/search" :> <<VFT, H>> @@
  "POST /user" :> <<H>> @@
  "PATCH /make-admin/:id" :> <<H>> @@
  "POST /teacher-request" :> <<H>> @@
  "GET /all-request" :> <<VFT, H>> @@
  "PATCH /teacher-request-status/:id" :> <<H>> @@
  "GET /" :> <<H>>

ChainS3 ==
  "GET /users/search" :> <<VFT, VA, H>> @@
  "POST /user" :> <<H>> @@
  "PATCH /make-admin/:id" :> <<VFT, VA, H>> @@
  "GET /all-request" :> <<VFT, VA, H>> @@
  "PATCH /teacher-request-status/:id" :> <<VFT, VA, H>> @@
  "GET /admin-add-class" :> <<VFT, VA, H>> @@
  "PATCH /class-request-status/:id" :> <<VFT, VA, H>> @@
  "POST /teacher-request" :> <<VFT, VT, H>> @@
  "GET /get-all-classes/:email" :> <<VFT, H>> @@
  "POST /add-class" :> <<VFT, VT, H>> @@
  "GET /approved-classes" :> <<H>> @@
  "GET /user/role/:email" :> <<VFT, H>> @@
  "GET /" :> <<H>>

ChainS4 ==
  "GET /users/search" :> <<VFT, VA, H>> @@
  "POST /user" :> <<H>> @@
  "PATCH /make-admin/:id" :> <<VFT, VA, H>> @@
  "GET /all-request" :> <<VFT, VA, H>> @@
  "PATCH /teacher-request-status/:id" :> <<VFT, VA, H>> @@
  "GET /admin-add-class" :> <<VFT, VA, H>> @@
  "PATCH /class-request-status/:id" :> <<VFT, VA, H>> @@
  "POST /teacher-request" :> <<VFT, H>> @@
  "GET /get-all-classes/:email" :> <<VFT, H>> @@
  "POST /add-class" :> <<VFT, VT, H>> @@
  "POST /add-assignment" :> <<VFT, VT, H>> @@
  "DELETE /my-class-delete/:id" :> <<VFT, VT, H>> @@
  "GET /approved-class-details/:id" :> <<H>> @@
  "GET /user/role/:email" :> <<VFT, H>> @@
  "GET /approved-classes-pagination" :> <<H>> @@
  "GET /" :> <<H>>

\* variant: /make-admin/:id registered without verifyFirebaseToken
ChainS5_NoToken == ("PATCH /make-admin/:id" :> <<VA, H>>) @@ ChainS4

ChainS5 ==
  "GET /users/search" :> <<VFT, VA, H>> @@
  "POST /user" :> <<H>> @@
  "PATCH /make-admin/:id" :> <<VFT, VA, H>> @@
  "GET /all-request" :> <<VFT, VA, H>> @@
  "PATCH /teacher-request-status/:id" :> <<VFT, VA, H>> @@
  "GET /admin-add-class" :> <<VFT, VA, H>> @@
  "PATCH /class-request-status/:id" :> <<VFT, VA, H>> @@
  "GET /top-enrolled-classes" :> <<H>> @@
  "POST /teacher-request" :> <<VFT, H>> @@
  "GET /get-all-classes/:email" :> <<VFT, VT, H>> @@
  "GET /all-enrolled/:id" :> <<VFT, VT, H>> @@
  "GET /all-assignment-count/:id" :> <<VFT, VT, H>> @@
  "POST /add-class" :> <<VFT, VT, H>> @@
  "GET /update-data-find/:id" :> <<H>> @@
  "PUT /update-class/:id" :> <<H>> @@
  "POST /add-assignment" :> <<VFT, VT, H>> @@
  "DELETE /my-class-delete/:id" :> <<VFT, VT, H>> @@
  "GET /approved-class-details/:id" :> <<H>> @@
  "GET /user/role/:email" :> <<VFT, H>> @@
  "GET /approved-classes-pagination" :> <<H>> @@
  "POST /create-payment-intent" :> <<VFT, H>> @@
  "POST /enroll-info" :> <<VFT, H>> @@
  "PATCH /enrolled-update/:id" :> <<VFT, H>> @@
  "GET /my-all-classes/:email" :> <<VFT, H>> @@
  "GET /assignment-get/:id" :> <<VFT, H>> @@
  "GET /get-class-for-assignment/:id" :> <<VFT, H>> @@
  "POST /ter-review" :> <<H>> @@
  "GET /get-ter-report/:email" :> <<H>> @@
  "GET /" :> <<H>>

\* the route table of a snapshot
Chains(s) ==
  CASE s = "S0" -> ChainS0
    [] s = "S1" -> ChainS1
    [] s = "S2" -> ChainS2
    [] s = "S3" -> ChainS3
    [] s = "S4" -> ChainS4
    [] OTHER -> ChainS5

\* the routes whose handlers take steps below
UserRoute == "POST /user"

MakeAdminRoute == "PATCH /make-admin/:id"

AddClassRoute == "POST /add-class"

EnrolledUpdateRoute == "PATCH /enrolled-update/:id"

HandledRoutes == {UserRoute, MakeAdminRoute, AddClassRoute, EnrolledUpdateRoute}

PaginationRoute == "GET /approved-classes-pagination"

ApprovedClassesRoute == "GET /approved-classes"

TopEnrolledRoute == "GET /top-enrolled-classes"

AdminAddClassRoute == "GET /admin-add-class"

UsersSearchRoute == "GET /users/search"

PaymentIntentRoute == "POST /create-payment-intent"

EnrollInfoRoute == "POST /enroll-info"

TeacherRequestRoute == "POST /teacher-request"

TeacherRequestStatusRoute == "PATCH /teacher-request-status/:id"

UpdateClassRoute == "PUT /update-class/:id"

ClassRequestStatusRoute == "PATCH /class-request-status/:id"

MyClassDeleteRoute == "DELETE /my-class-delete/:id"

\* the routes of the class listing scenario
ListRoutes ==
  {PaginationRoute, ApprovedClassesRoute, TopEnrolledRoute, AdminAddClassRoute,
   EnrolledUpdateRoute}

\* ------------------------------------------------------------- requests

Max(a, b) == IF a >= b THEN a ELSE b

ReqIds ==
  1..Max(Max(Max(MaxReq, MaxEnrollReq), Max(MaxListReq, MaxSearchReq)),
         Max(Max(MaxPayReq, MaxTeacherReq), Max(Max(MaxClassReq, MaxRoleReq), MaxDeleteReq)))

Roles == {"student", "teacher", "admin"}

EmptyBody ==
  [email |-> None, role |-> None, status |-> None, enrolled |-> -1,
   price |-> -1, courseId |-> NoId]

\* req.query of a request without a query string
NoQuery == [page |-> Undefined, limit |-> Undefined, email |-> Undefined]

\* what the pagination handler computes and sends besides the data
NoPaging == [pageNo |-> NaN, limit |-> NaN, total |-> -1, totalPages |-> -1]

\* a request the server has not received yet
NewReq ==
  [pc |-> "new", route |-> None, hdr |-> Undefined, pid |-> BadId,
   body |-> EmptyBody, chain |-> <<>>, log |-> <<>>, token |-> Undefined,
   decoded |-> None, user |-> NullUser, found |-> NullUser, t0 |-> 0,
   t1 |-> 0, resp |-> <<>>, msg |-> None, oracle |-> "none",
   gateRead |-> FALSE, idle |-> FALSE, had |-> 0, query |-> NoQuery,
   paging |-> NoPaging, data |-> <<>>, failed |-> FALSE]

\* the bodies and :id parameters a client sends to a route
Bodies(route) ==
  CASE route = UserRoute ->
         {[EmptyBody EXCEPT !.email = e, !.role = r] :
            e \in Emails, r \in {None, "admin"}}
    [] route = MakeAdminRoute ->
         {[EmptyBody EXCEPT !.role = r] : r \in Roles \cup {"owner"}}
    [] route = AddClassRoute ->
         {[EmptyBody EXCEPT !.email = "b@x.com", !.status = st, !.enrolled = 0,
                            !.price = 10] :
            st \in {"pending", "approved"}}
    [] route = PaymentIntentRoute ->
         {[EmptyBody EXCEPT !.courseId = c] : c \in {BadId, 3, NoId}}
    [] route = EnrollInfoRoute ->
         {[EmptyBody EXCEPT !.email = "b@x.com", !.courseId = 3]}
    [] route = TeacherRequestRoute ->
         {[EmptyBody EXCEPT !.email = e] : e \in Emails}
    [] route = TeacherRequestStatusRoute ->
         {[EmptyBody EXCEPT !.email = "b@x.com", !.status = "approved",
                            !.role = "teacher"],
          [EmptyBody EXCEPT !.email = "b@x.com", !.status = "rejected",
                            !.role = "student"]}
    [] route = UpdateClassRoute ->
         {[EmptyBody EXCEPT !.enrolled = 0],
          [EmptyBody EXCEPT !.status = "approved"]}
    [] route = ClassRequestStatusRoute ->
         {[EmptyBody EXCEPT !.status = st] : st \in {"approved", "rejected"}}
    [] OTHER -> {EmptyBody}

Params(route) ==
  CASE route = MakeAdminRoute -> {BadId, 1, 2}
    [] route = EnrolledUpdateRoute -> {BadId, 3}
    [] route = TeacherRequestStatusRoute -> {BadId, FirstId}
    [] route \in {UpdateClassRoute, ClassRequestStatusRoute} -> {BadId, 3}
    [] route = MyClassDeleteRoute -> {BadId, 3, 5, NoId}
    [] OTHER -> {BadId}

\* the query strings a client sends to a route
Queries(route) ==
  CASE route = PaginationRoute ->
         {[NoQuery EXCEPT !.page = pg, !.limit = lim] :
            pg \in {Undefined, Str(<<"-", "1">>), Str(<<"0">>), Str(<<"1">>),
                    Str(<<"2">>), Str(<<"3">>)},
            lim \in {Undefined, Str(<<"0">>), Str(<<"2">>), Str(<<"6">>),
                     Str(<<"1", "3">>)}}
    [] route = UsersSearchRoute ->
         {[NoQuery EXCEPT !.email = e] :
            e \in {Undefined, Str(<<>>), Str(<<"a">>), Str(<<"B">>),
                   Str(<<".">>), Str(<<"(">>)}}
    [] OTHER -> {NoQuery}

\* the headers that get a request past the checks of lines 57-64
GoodHeaders == {h \in Headers : ~Falsy(h) /\ StartsWith(h.chars, BearerPrefix)
                                  /\ ~Falsy(SplitToken(h.chars))}

\* what a client sends: a route that ignores the Authorization header gets
\* none, and a request that stops at the header check sends the first body
Inputs(route, chain) ==
  LET b0 == CHOOSE b \in Bodies(route) : TRUE
      p0 == CHOOSE p \in Params(route) : TRUE
      q0 == CHOOSE q \in Queries(route) : TRUE
  IN IF VFT \in {chain[i] : i \in 1..Len(chain)}
     THEN {[hdr |-> h, pid |-> p, body |-> b, query |-> q] :
             h \in GoodHeaders, p \in Params(route), b \in Bodies(route),
             q \in Queries(route)}
          \cup {[hdr |-> h, pid |-> p0, body |-> b0, query |-> q0] :
                  h \in Headers \ GoodHeaders}
     ELSE {[hdr |-> Undefined, pid |-> p, body |-> b, query |-> q] :
             p \in Params(route), b \in Bodies(route), q \in Queries(route)}

\* res.status(code).send(...): the layer returns and nothing calls next()
Respond(q, code, msg) ==
  [q EXCEPT !.resp = Append(@, code), !.msg = msg, !.pc = "done"]

\* the await of a store or provider call: the call is issued and the task waits
Await(q, call, pc) == [q EXCEPT !.log = Append(@, call), !.pc = pc]

\* variant: the catch block answering as if the call had succeeded
StoreError_Silent(q, msg) == Respond([q EXCEPT !.failed = TRUE], 200, "updated")

\* the catch block of a handler: the store or provider call threw
StoreError(q, msg) == Respond([q EXCEPT !.failed = TRUE], 500, msg)

\* an await outside any try block rejecting: the async layer rejects
Reject(q) == [q EXCEPT !.failed = TRUE, !.pc = "rejected"]

\* ------------------------------------------------------------- handlers
\* Each XStart is the synchronous part of a handler up to its first await.

\* variant: the role of the body left as the client sent it
UserStart_BodyRole(q, snap, now) ==
  Await([q EXCEPT !.body.status = IF snap = "S0" THEN @ ELSE "not-verified",
                  !.t0 = now],
        "users.findOne", "user_findOne")

\* POST /user: the body is stamped, then findOne({email}) is awaited
UserStart(q, snap, now) ==
  Await([q EXCEPT !.body.role = "student",
                  !.body.status = IF snap = "S0" THEN @ ELSE "not-verified",
                  !.t0 = now],
        "users.findOne", "user_findOne")

\* PATCH /make-admin/:id: new ObjectId(id) throws inside the try block
MakeAdminStart(q) ==
  IF q.pid = BadId
  THEN Respond(q, 500, "Failed to update")
  ELSE Await(q, "users.updateOne", "makeadmin_updateOne")

\* POST /add-class
AddClassStart(q) == Await(q, "classes.insertOne", "addclass_insertOne")

\* PATCH /enrolled-update/:id
EnrolledUpdateStart(q) ==
  IF q.pid = BadId
  THEN Respond(q, 500, "Server error")
  ELSE Await(q, "classes.updateOne", "enrolled_updateOne")

\* a * b for numbers
Times(a, b) == IF a.nan \/ b.nan THEN NaN ELSE Num(a.val * b.val)

\* variant: the page size falling back to 10
PaginationStart_Ten(q) ==
  Await([q EXCEPT !.paging.pageNo = ParseInt(q.query.page),
                  !.paging.limit = OrElse(ParseInt(q.query.limit), Num(10))],
        "classes.countDocuments", "page_countDocuments")

\* GET /approved-classes-pagination: page and limit are parsed, then
\* countDocuments is awaited
PaginationStart(q) ==
  Await([q EXCEPT !.paging.pageNo = ParseInt(q.query.page),
                  !.paging.limit = OrElse(ParseInt(q.query.limit), Num(6))],
        "classes.countDocuments", "page_countDocuments")

\* GET /approved-classes
ApprovedClassesStart(q) == Await(q, "classes.find", "approved_find")

\* GET /top-enrolled-classes
TopEnrolledStart(q) == Await(q, "classes.find", "top_find")

\* GET /admin-add-class
AdminAddClassStart(q) == Await(q, "classes.find", "admin_find")

\* GET /users/search: new RegExp(emailQuery, 'i') runs before the try block,
\* so its SyntaxError rejects the layer
UsersSearchStart(q) ==
  IF RegExpThrows(q.query.email)
  THEN [q EXCEPT !.pc = "rejected"]
  ELSE Await(q, "users.find", "search_find")

\* POST /create-payment-intent: new ObjectId(courseId) and the findOne run
\* before the try block
PaymentIntentStart(q) ==
  IF q.body.courseId = BadId
  THEN [q EXCEPT !.pc = "rejected"]
  ELSE Await(q, "classes.findOne", "pay_findOne")

\* POST /enroll-info: the body is stamped, then insertOne is awaited
EnrollInfoStart(q, now) ==
  Await([q EXCEPT !.t0 = now], "enrolls.insertOne", "enroll_insertOne")

\* POST /teacher-request: the body is stamped, then findOne({email}) is
\* awaited
TeacherRequestStart(q, now) ==
  Await([q EXCEPT !.body.status = "pending", !.t0 = now],
        "requests.findOne", "treq_findOne")

\* PATCH /teacher-request-status/:id: new ObjectId(id) throws inside the try
\* block
TeacherRequestStatusStart(q) ==
  IF q.pid = BadId
  THEN Respond(q, 500, "Failed to update")
  ELSE Await(q, "requests.updateOne", "trs_requests_updateOne")

\* PUT /update-class/:id: new ObjectId(id) throws inside the try block
UpdateClassStart(q) ==
  IF q.pid = BadId
  THEN Respond(q, 500, "Update failed")
  ELSE Await(q, "classes.updateOne", "updateclass_updateOne")

\* PATCH /class-request-status/:id
ClassRequestStatusStart(q) ==
  IF q.pid = BadId
  THEN Respond(q, 500, "Failed to update")
  ELSE Await(q, "classes.updateOne", "classstatus_updateOne")

\* DELETE /my-class-delete/:id
MyClassDeleteStart(q) ==
  IF q.pid = BadId
  THEN Respond(q, 500, "Internal Server Error")
  ELSE Await(q, "classes.deleteOne", "delete_deleteOne")

HandlerStart(q, snap, now) ==
  CASE q.route = UserRoute -> UserStart(q, snap, now)
    [] q.route = MakeAdminRoute -> MakeAdminStart(q)
    [] q.route = AddClassRoute -> AddClassStart(q)
    [] q.route = PaginationRoute -> PaginationStart(q)
    [] q.route = ApprovedClassesRoute -> ApprovedClassesStart(q)
    [] q.route = TopEnrolledRoute -> TopEnrolledStart(q)
    [] q.route = AdminAddClassRoute -> AdminAddClassStart(q)
    [] q.route = UsersSearchRoute -> UsersSearchStart(q)
    [] q.route = PaymentIntentRoute -> PaymentIntentStart(q)
    [] q.route = EnrollInfoRoute -> EnrollInfoStart(q, now)
    [] q.route = TeacherRequestRoute -> TeacherRequestStart(q, now)
    [] q.route = TeacherRequestStatusRoute -> TeacherRequestStatusStart(q)
    [] q.route = UpdateClassRoute -> UpdateClassStart(q)
    [] q.route = ClassRequestStatusRoute -> ClassRequestStatusStart(q)
    [] q.route = MyClassDeleteRoute -> MyClassDeleteStart(q)
    [] OTHER -> EnrolledUpdateStart(q)

\* ------------------------------------------------------------- gates

\* variant: no check of the token after the split
VerifyFirebaseTokenStart_NoTokenCheck(q) ==
  IF Falsy(q.hdr) \/ ~StartsWith(q.hdr.chars, BearerPrefix)
  THEN Respond(q, 401, "Unauthorized access")
  ELSE Await([q EXCEPT !.token = SplitToken(q.hdr.chars)],
             "verifyIdToken", "verifyIdToken")

\* verifyFirebaseToken up to the await of verifyIdToken
VerifyFirebaseTokenStart(q) ==
  IF Falsy(q.hdr) \/ ~StartsWith(q.hdr.chars, BearerPrefix)
  THEN Respond(q, 401, "Unauthorized access")
  ELSE LET token == SplitToken(q.hdr.chars)
       IN IF Falsy(token)
          THEN Respond(q, 401, "Unauthorized access")
          ELSE Await([q EXCEPT !.token = token], "verifyIdToken", "verifyIdToken")

\* verifyAdmin / verifyTeacher up to the await of findOne: req.decoded.email
\* throws when no earlier layer set req.decoded, and nothing catches it
RoleGateStart(q) ==
  IF q.decoded = None
  THEN [q EXCEPT !.pc = "rejected"]
  ELSE Await(q, "users.findOne", "role_findOne")

\* express runs the first layer left in the chain of the request
RunLayer(q, snap, now) ==
  LET layer == Head(q.chain)
      q1 == [q EXCEPT !.log = Append(@, layer)]
  IN CASE layer = VFT -> VerifyFirebaseTokenStart(q1)
       [] layer \in {VA, VT} -> RoleGateStart(q1)
       [] OTHER -> HandlerStart(q1, snap, now)

\* next(): the layer is over and the following one starts
NextLayer(q, snap, now) == RunLayer([q EXCEPT !.chain = Tail(@)], snap, now)

\* variant: the catch block logs the error and calls next()
VerifyFirebaseTokenResume_NoCatch(q, o, snap, now) ==
  IF o.ok
  THEN NextLayer([q EXCEPT !.decoded = o.email], snap, now)
  ELSE NextLayer(q, snap, now)

\* verifyFirebaseToken after the await: o is what verifyIdToken produced
VerifyFirebaseTokenResume(q, o, snap, now) ==
  IF o.ok
  THEN NextLayer([q EXCEPT !.decoded = o.email], snap, now)
  ELSE Respond(q, 401, "Unauthorized access")

\* variant: verifyAdmin checking only that a record exists
VerifyAdminResume_AnyRecord(q, user, snap, now) ==
  IF user = NullUser
  THEN Respond(q, 403, "Forbidden Access")
  ELSE NextLayer(q, snap, now)

\* variant: verifyAdmin comparing with the role of the other gate
VerifyAdminResume_Teacher(q, user, snap, now) ==
  IF user = NullUser \/ user.role # "teacher"
  THEN Respond(q, 403, "Forbidden Access")
  ELSE NextLayer(q, snap, now)

\* variant: verifyAdmin sending 403 without returning
VerifyAdminResume_NoReturn(q, user, snap, now) ==
  IF user = NullUser \/ user.role # "admin"
  THEN NextLayer([q EXCEPT !.resp = Append(@, 403), !.msg = "Forbidden Access"],
                 snap, now)
  ELSE NextLayer(q, snap, now)

\* verifyAdmin after the await: user is what findOne returned
VerifyAdminResume(q, user, snap, now) ==
  IF user = NullUser \/ user.role # "admin"
  THEN Respond(q, 403, "Forbidden Access")
  ELSE NextLayer(q, snap, now)

\* variant: verifyTeacher checking only that a record exists
VerifyTeacherResume_AnyRole(q, user, snap, now) ==
  IF user = NullUser
  THEN Respond(q, 403, "Forbidden Access")
  ELSE NextLayer(q, snap, now)

\* verifyTeacher after the await
VerifyTeacherResume(q, user, snap, now) ==
  IF user = NullUser \/ user.role # "teacher"
  THEN Respond(q, 403, "Forbidden Access")
  ELSE NextLayer(q, snap, now)

\* ------------------------------------------------------------- actions

Idle(q) == q.pc \in {"new", "done", "hung"}

\* the server receives request r and runs its chain up to the first await
Arrive(r, routes) ==
  /\ reqs[r].pc = "new"
  /\ \A j \in 1..(r - 1) : reqs[j].pc # "new"
  /\ \E route \in routes \cap DOMAIN Chains(snapshot) :
       \E in \in Inputs(route, Chains(snapshot)[route]) :
         LET q == [NewReq EXCEPT
                     !.route = route, !.hdr = in.hdr, !.pid = in.pid,
                     !.body = in.body, !.query = in.query,
                     !.chain = Chains(snapshot)[route],
                     !.idle = \A j \in ReqIds : Idle(reqs[j]),
                     !.had = Count(users, Eq("email", in.body.email))]
         IN reqs' = [reqs EXCEPT ![r] = RunLayer(q, snapshot, clock + 1)]
  /\ clock' = clock + 1
  /\ UNCHANGED <<teacherRequests, enrolls, intents, snapshot, users, classes, nextId>>

\* verifyIdToken settles
OracleReply(r) ==
  /\ reqs[r].pc = "verifyIdToken"
  /\ \E o \in VerifyIdToken(reqs[r].token.chars) :
       LET q == [reqs[r] EXCEPT !.oracle = IF o.ok THEN "accepted" ELSE "rejected"]
       IN reqs' = [reqs EXCEPT ![r] = VerifyFirebaseTokenResume(q, o, snapshot, clock)]
  /\ UNCHANGED <<teacherRequests, enrolls, intents, snapshot, users, classes, nextId, clock>>

\* variant: the role gate creating the record it did not find
RoleRead_Creating(r) ==
  /\ reqs[r].pc = "role_findOne"
  /\ LET user == FindOne(users, Eq("email", reqs[r].decoded), NullUser)
         q == [reqs[r] EXCEPT !.user = user, !.gateRead = TRUE]
     IN /\ reqs' = [reqs EXCEPT ![r] =
                      IF Head(q.chain) = VA
                      THEN VerifyAdminResume(q, user, snapshot, clock)
                      ELSE VerifyTeacherResume(q, user, snapshot, clock)]
        /\ users' = IF user = NullUser
                    THEN Append(users, [UserDoc(nextId, reqs[r].decoded,
                                                "student", "not-verified")
                                          EXCEPT !.create_at = clock])
                    ELSE users
  /\ UNCHANGED <<teacherRequests, enrolls, intents, snapshot, classes, nextId, clock>>

\* variant: the role gate reusing the record an earlier request of the same
\* caller read
RoleRead_Cached(r) ==
  /\ reqs[r].pc = "role_findOne"
  /\ \E fail \in BOOLEAN :
       LET earlier == {j \in ReqIds : /\ j # r
                                      /\ reqs[j].gateRead
                                      /\ reqs[j].decoded = reqs[r].decoded}
           user == IF earlier # {}
                   THEN reqs[CHOOSE j \in earlier : TRUE].user
                   ELSE FindOne(users, Eq("email", reqs[r].decoded), NullUser)
           q == [reqs[r] EXCEPT !.user = user, !.gateRead = TRUE]
       IN reqs' = [reqs EXCEPT ![r] =
                     IF fail THEN Reject(reqs[r])
                     ELSE IF Head(q.chain) = VA
                     THEN VerifyAdminResume(q, user, snapshot, clock)
                     ELSE VerifyTeacherResume(q, user, snapshot, clock)]
  /\ UNCHANGED <<teacherRequests, enrolls, intents, snapshot, users, classes, nextId, clock>>

\* the findOne of verifyAdmin / verifyTeacher settles; when the store fails
\* the rejection of the async layer is caught by nothing in the code
RoleRead(r) ==
  /\ reqs[r].pc = "role_findOne"
  /\ \E fail \in BOOLEAN :
       LET user == FindOne(users, Eq("email", reqs[r].decoded), NullUser)
           q == [reqs[r] EXCEPT !.user = user, !.gateRead = TRUE]
       IN reqs' = [reqs EXCEPT ![r] =
                     IF fail THEN Reject(reqs[r])
                     ELSE IF Head(q.chain) = VA
                     THEN VerifyAdminResume(q, user, snapshot, clock)
                     ELSE VerifyTeacherResume(q, user, snapshot, clock)]
  /\ UNCHANGED <<teacherRequests, enrolls, intents, snapshot, users, classes, nextId, clock>>

\* a rejected layer: the request gets no response from the code; the
\* framework leaves it open or answers 500 itself
Unhandled(r) ==
  /\ reqs[r].pc = "rejected"
  /\ \E o \in {"hang", "500"} :
       reqs' = [reqs EXCEPT ![r] =
                  IF o = "hang" THEN [@ EXCEPT !.pc = "hung"]
                  ELSE Respond(@, 500, "Internal Server Error")]
  /\ UNCHANGED <<teacherRequests, enrolls, intents, snapshot, users, classes, nextId, clock>>

\* POST /user after findOne({email})
UserAfterFind(q, found, now) ==
  IF found # NullUser
  THEN Await([q EXCEPT !.found = found, !.t1 = now],
             "users.updateOne", "user_updateOne")
  ELSE Await(q, "users.insertOne", "user_insertOne")

\* POST /user after updateOne: the earliest snapshot has no return here and
\* goes on to insertOne
UserAfterUpdate(q, snap) ==
  IF snap = "S0"
  THEN Await(q, "users.insertOne", "user_insertOne")
  ELSE Respond(q, 200, "User already exists")

\* the document POST /user inserts
UserData(q, id) ==
  [id |-> id, email |-> q.body.email, role |-> q.body.role,
   status |-> q.body.status, create_at |-> q.t0, last_loggedIn |-> q.t0]

UserFindOne(r) ==
  /\ reqs[r].pc = "user_findOne"
  /\ \E fail \in BOOLEAN :
       LET q == reqs[r]
           found == FindOne(users, Eq("email", q.body.email), NullUser)
       IN reqs' = [reqs EXCEPT ![r] =
                     IF fail THEN StoreError(q, "error.message")
                     ELSE UserAfterFind(q, found, clock)]
  /\ UNCHANGED <<teacherRequests, enrolls, intents, snapshot, users, classes, nextId, clock>>

UserUpdateOne(r) ==
  /\ reqs[r].pc = "user_updateOne"
  /\ \E fail \in BOOLEAN :
       LET q == reqs[r]
       IN IF fail
          THEN /\ reqs' = [reqs EXCEPT ![r] = StoreError(q, "error.message")]
               /\ users' = users
          ELSE /\ reqs' = [reqs EXCEPT ![r] = UserAfterUpdate(q, snapshot)]
               /\ users' = UpdateOne(users, Eq("email", q.body.email),
                                     [last_loggedIn |-> q.t1])
  /\ UNCHANGED <<teacherRequests, enrolls, intents, snapshot, classes, nextId, clock>>

UserInsertOne(r) ==
  /\ reqs[r].pc = "user_insertOne"
  /\ \E fail \in BOOLEAN :
       LET q == reqs[r]
       IN IF fail
          THEN /\ reqs' = [reqs EXCEPT ![r] = StoreError(q, "error.message")]
               /\ UNCHANGED <<users, nextId>>
          ELSE /\ reqs' = [reqs EXCEPT ![r] = Respond(q, 200, "insertedId")]
               /\ users' = InsertOne(users, UserData(q, nextId))
               /\ nextId' = nextId + 1
  /\ UNCHANGED <<teacherRequests, enrolls, intents, snapshot, classes, clock>>

\* variant: the $set without the status
MakeAdminSet_RoleOnly(role) == [role |-> role]

\* the $set of PATCH /make-admin/:id
MakeAdminSet(role) == [role |-> role, status |-> "verified"]

MakeAdminUpdate(r) ==
  /\ reqs[r].pc = "makeadmin_updateOne"
  /\ \E fail \in BOOLEAN :
       LET q == reqs[r]
       IN IF fail
          THEN /\ reqs' = [reqs EXCEPT ![r] = StoreError(q, "Failed to update")]
               /\ users' = users
          ELSE /\ reqs' = [reqs EXCEPT ![r] = Respond(q, 200, "modifiedCount")]
               /\ users' = UpdateOne(users, Eq("id", q.pid),
                                     MakeAdminSet(q.body.role))
  /\ UNCHANGED <<teacherRequests, enrolls, intents, snapshot, classes, nextId, clock>>

\* the document POST /add-class inserts: the body as the client sent it
AddClassData(q, id) ==
  [id |-> id, email |-> q.body.email, status |-> q.body.status,
   enrolled |-> q.body.enrolled]

AddClassInsert(r) ==
  /\ reqs[r].pc = "addclass_insertOne"
  /\ \E fail \in BOOLEAN :
       LET q == reqs[r]
       IN IF fail
          THEN /\ reqs' = [reqs EXCEPT ![r] = StoreError(q, "error.message")]
               /\ UNCHANGED <<classes, nextId>>
          ELSE /\ reqs' = [reqs EXCEPT ![r] = Respond(q, 200, "Add class saved in db")]
               /\ classes' = InsertOne(classes, AddClassData(q, nextId))
               /\ nextId' = nextId + 1
  /\ UNCHANGED <<teacherRequests, enrolls, intents, snapshot, users, clock>>

\* variant: { $set: { enrolled: 1 } }
EnrolledInc_Set(c) == [c EXCEPT !.enrolled = 1]

\* { $inc: { enrolled: 1 } }: applied by the store to the stored value; a
\* missing field counts as 0
EnrolledInc(c) == [c EXCEPT !.enrolled = IF @ = -1 THEN 1 ELSE @ + 1]

\* collection.updateOne(filter, { $inc: { enrolled: 1 } })
UpdateOneInc(coll, filter) ==
  LET i == FirstIdx(coll, filter)
  IN IF i = 0 THEN coll ELSE [coll EXCEPT ![i] = EnrolledInc(@)]

EnrolledUpdate(r) ==
  /\ reqs[r].pc = "enrolled_updateOne"
  /\ \E fail \in BOOLEAN :
       LET q == reqs[r]
       IN IF fail
          THEN /\ reqs' = [reqs EXCEPT ![r] = StoreError(q, "Server error")]
               /\ classes' = classes
          ELSE /\ reqs' = [reqs EXCEPT ![r] = Respond(q, 200, "Enrolled count updated")]
               /\ classes' = UpdateOneInc(classes, Eq("id", q.pid))
  /\ UNCHANGED <<teacherRequests, enrolls, intents, snapshot, users, nextId, clock>>

\* the filter of the public class listings
Approved == Eq("status", "approved")

\* GET /approved-classes-pagination after countDocuments
PaginationCount(r) ==
  /\ reqs[r].pc = "page_countDocuments"
  /\ \E fail \in BOOLEAN :
       LET q == reqs[r]
       IN reqs' = [reqs EXCEPT ![r] =
                     IF fail THEN StoreError(q, "Server Error")
                     ELSE Await([q EXCEPT !.paging.total = Count(classes, Approved)],
                                "classes.find", "page_find")]
  /\ UNCHANGED <<teacherRequests, enrolls, intents, snapshot, users, classes, nextId, clock>>

\* GET /approved-classes-pagination after find: the store refuses a skip
\* that is negative or NaN; limit is positive for every query sent here
PaginationFind(r) ==
  /\ reqs[r].pc = "page_find"
  /\ LET q == reqs[r]
         skip == Times(q.paging.pageNo, q.paging.limit)
     IN \E fail \in IF skip.nan \/ skip.val < 0 THEN {TRUE} ELSE BOOLEAN :
          reqs' = [reqs EXCEPT ![r] =
                     IF fail THEN StoreError(q, "Server Error")
                     ELSE Respond([q EXCEPT
                                     !.data = SkipLimit(Find(classes, Approved),
                                                        skip.val, q.paging.limit.val),
                                     !.paging.totalPages =
                                        Ceil(q.paging.total, q.paging.limit.val)],
                                  200, "total, pageNo, totalPages, data")]
  /\ UNCHANGED <<teacherRequests, enrolls, intents, snapshot, users, classes, nextId, clock>>

\* GET /approved-classes after find
ApprovedClassesFind(r) ==
  /\ reqs[r].pc = "approved_find"
  /\ \E fail \in BOOLEAN :
       LET q == reqs[r]
       IN reqs' = [reqs EXCEPT ![r] =
                     IF fail THEN StoreError(q, "Failed to fetch approved classes")
                     ELSE Respond([q EXCEPT !.data = Find(classes, Approved)],
                                  200, "approvedClasses")]
  /\ UNCHANGED <<teacherRequests, enrolls, intents, snapshot, users, classes, nextId, clock>>

\* the filter of GET /top-enrolled-classes
TopEnrolledFilter == Gt("enrolled", 0)

\* GET /top-enrolled-classes after find().sort().limit(6)
TopEnrolledFind(r) ==
  /\ reqs[r].pc = "top_find"
  /\ \E fail \in BOOLEAN :
       LET q == reqs[r]
       IN IF fail
          THEN reqs' = [reqs EXCEPT ![r] = StoreError(q, "Server error")]
          ELSE \E sorted \in SortedByEnrolled(Find(classes, TopEnrolledFilter)) :
                 reqs' = [reqs EXCEPT ![r] =
                            Respond([q EXCEPT !.data = SkipLimit(sorted, 0, 6)],
                                    200, "topClasses")]
  /\ UNCHANGED <<teacherRequests, enrolls, intents, snapshot, users, classes, nextId, clock>>

\* GET /admin-add-class after find(): the handler has no try block
AdminAddClassFind(r) ==
  /\ reqs[r].pc = "admin_find"
  /\ \E fail \in BOOLEAN :
       LET q == reqs[r]
       IN reqs' = [reqs EXCEPT ![r] =
                     IF fail THEN Reject(q)
                     ELSE Respond([q EXCEPT !.data = Find(classes, All)],
                                  200, "result")]
  /\ UNCHANGED <<teacherRequests, enrolls, intents, snapshot, users, classes, nextId, clock>>

\* variant: find() without a filter in every snapshot
UsersSearchFilter_All(q, snap) == All

\* the filter of GET /users/search without an email query: the snapshot that
\* first has the route calls find() without one
UsersSearchFilter(q, snap) ==
  IF snap = "S1" THEN All ELSE Ne("email", q.decoded)

\* GET /users/search after find
UsersSearchFind(r) ==
  /\ reqs[r].pc = "search_find"
  /\ \E fail \in BOOLEAN :
       LET q == reqs[r]
           found == IF Falsy(q.query.email)
                    THEN Find(users, UsersSearchFilter(q, snapshot))
                    ELSE SkipLimit(Find(users, Regex("email", q.query.email.chars)),
                                   0, 10)
       IN reqs' = [reqs EXCEPT ![r] =
                     IF fail THEN StoreError(q, "Error searching users")
                     ELSE Respond([q EXCEPT !.data = found], 200, "users")]
  /\ UNCHANGED <<teacherRequests, enrolls, intents, snapshot, users, classes, nextId, clock>>

\* the argument of stripe.paymentIntents.create, with the request calling
PaymentIntentParams(classData, r) ==
  [amount |-> classData.price * 100, currency |-> "usd", by |-> r]

\* POST /create-payment-intent after findOne: a rejection here is outside the
\* try block; with a class found the provider call is issued
PaymentIntentFindOne(r) ==
  /\ reqs[r].pc = "pay_findOne"
  /\ \E fail \in BOOLEAN :
       LET q == reqs[r]
           classData == FindOne(classes, Eq("id", q.body.courseId), NullClass)
       IN IF fail
          THEN /\ reqs' = [reqs EXCEPT ![r] = Reject(q)]
               /\ intents' = intents
          ELSE IF classData = NullClass
          THEN /\ reqs' = [reqs EXCEPT ![r] =
                             Respond(q, 404, "Not found any classData by this class ID")]
               /\ intents' = intents
          ELSE /\ reqs' = [reqs EXCEPT ![r] =
                             Await(q, "paymentIntents.create", "pay_create")]
               /\ intents' = Append(intents, PaymentIntentParams(classData, r))
  /\ UNCHANGED <<teacherRequests, enrolls, snapshot, users, classes, nextId, clock>>

\* the document POST /enroll-info inserts
EnrollData(q, id) ==
  [id |-> id, email |-> q.body.email, courseId |-> q.body.courseId,
   create_at |-> q.t0]

\* variant: the handler recording the enrollment once the intent exists
PaymentIntentCreate_Enrolling(r) ==
  /\ reqs[r].pc = "pay_create"
  /\ \E fail \in BOOLEAN :
       LET q == reqs[r]
       IN IF fail
          THEN /\ reqs' = [reqs EXCEPT ![r] = StoreError(q, "error.message")]
               /\ enrolls' = enrolls
          ELSE /\ reqs' = [reqs EXCEPT ![r] = Respond(q, 200, "clientSecret")]
               /\ enrolls' = InsertOne(enrolls, EnrollData(q, nextId))
  /\ UNCHANGED <<teacherRequests, intents, snapshot, users, classes, nextId, clock>>

\* POST /create-payment-intent after stripe.paymentIntents.create
PaymentIntentCreate(r) ==
  /\ reqs[r].pc = "pay_create"
  /\ \E fail \in BOOLEAN :
       LET q == reqs[r]
       IN reqs' = [reqs EXCEPT ![r] =
                     IF fail THEN StoreError(q, "error.message")
                     ELSE Respond(q, 200, "clientSecret")]
  /\ UNCHANGED <<teacherRequests, enrolls, intents, snapshot, users, classes, nextId, clock>>

\* variant: the handler counting the enrollment on the class as well
EnrollInfoInsert_Counting(r) ==
  /\ reqs[r].pc = "enroll_insertOne"
  /\ \E fail \in BOOLEAN :
       LET q == reqs[r]
       IN IF fail
          THEN /\ reqs' = [reqs EXCEPT ![r] =
                             StoreError(q, "Not inserted data in database")]
               /\ UNCHANGED <<enrolls, nextId, classes>>
          ELSE /\ reqs' = [reqs EXCEPT ![r] = Respond(q, 201, "insertedId")]
               /\ enrolls' = InsertOne(enrolls, EnrollData(q, nextId))
               /\ nextId' = nextId + 1
               /\ classes' = UpdateOneInc(classes, Eq("id", q.body.courseId))
  /\ UNCHANGED <<teacherRequests, intents, snapshot, users, clock>>

\* POST /enroll-info after insertOne
EnrollInfoInsert(r) ==
  /\ reqs[r].pc = "enroll_insertOne"
  /\ \E fail \in BOOLEAN :
       LET q == reqs[r]
       IN IF fail
          THEN /\ reqs' = [reqs EXCEPT ![r] =
                             StoreError(q, "Not inserted data in database")]
               /\ UNCHANGED <<enrolls, nextId>>
          ELSE /\ reqs' = [reqs EXCEPT ![r] = Respond(q, 201, "insertedId")]
               /\ enrolls' = InsertOne(enrolls, EnrollData(q, nextId))
               /\ nextId' = nextId + 1
  /\ UNCHANGED <<teacherRequests, intents, snapshot, users, classes, clock>>

\* the snapshots before the role gates were added
BeforeGates == {"S1", "S2"}

\* POST /teacher-request after findOne({email}); the handler has no try block
TeacherRequestFindOne(r) ==
  /\ reqs[r].pc = "treq_findOne"
  /\ \E fail \in BOOLEAN :
       LET q == reqs[r]
           alreadyRequest == FindOne(teacherRequests, Eq("email", q.body.email),
                                     NullRequest)
       IN reqs' = [reqs EXCEPT ![r] =
                     IF fail THEN Reject(q)
                     ELSE IF alreadyRequest # NullRequest
                     THEN Await([q EXCEPT !.t1 = clock],
                                "requests.updateOne", "treq_updateOne")
                     ELSE Await(q, "requests.insertOne", "treq_insertOne")]
  /\ UNCHANGED <<teacherRequests, enrolls, intents, snapshot, users, classes, nextId, clock>>

\* variant: the $set also renewing create_at
ReRequestSet_CreateAt(q) ==
  [status |-> "pending", create_at |-> q.t1, last_request_at |-> q.t1]

\* the $set of POST /teacher-request for an email that has a request
ReRequestSet(q) == [status |-> "pending", last_request_at |-> q.t1]

\* POST /teacher-request after updateOne
TeacherRequestUpdateOne(r) ==
  /\ reqs[r].pc = "treq_updateOne"
  /\ \E fail \in BOOLEAN :
       LET q == reqs[r]
       IN IF fail
          THEN /\ reqs' = [reqs EXCEPT ![r] = Reject(q)]
               /\ teacherRequests' = teacherRequests
          ELSE /\ reqs' = [reqs EXCEPT ![r] =
                             Respond(q, 200, IF snapshot \in BeforeGates
                                             THEN "User already exists"
                                             ELSE "Already exists")]
               /\ teacherRequests' =
                    UpdateOne(teacherRequests, Eq("email", q.body.email),
                              ReRequestSet(q))
  /\ UNCHANGED <<enrolls, intents, snapshot, users, classes, nextId, clock>>

\* the document POST /teacher-request inserts
TeachOnData(q, id) ==
  [id |-> id, email |-> q.body.email, status |-> q.body.status,
   create_at |-> q.t0, last_request_at |-> q.t0]

\* POST /teacher-request after insertOne
TeacherRequestInsertOne(r) ==
  /\ reqs[r].pc = "treq_insertOne"
  /\ \E fail \in BOOLEAN :
       LET q == reqs[r]
       IN IF fail
          THEN /\ reqs' = [reqs EXCEPT ![r] = Reject(q)]
               /\ UNCHANGED <<teacherRequests, nextId>>
          ELSE /\ reqs' = [reqs EXCEPT ![r] = Respond(q, 200, "insertedId")]
               /\ teacherRequests' = InsertOne(teacherRequests, TeachOnData(q, nextId))
               /\ nextId' = nextId + 1
  /\ UNCHANGED <<enrolls, intents, snapshot, users, classes, clock>>

\* PATCH /teacher-request-status/:id after the updateOne on the request
TeacherStatusUpdateRequest(r) ==
  /\ reqs[r].pc = "trs_requests_updateOne"
  /\ \E fail \in BOOLEAN :
       LET q == reqs[r]
       IN IF fail
          THEN /\ reqs' = [reqs EXCEPT ![r] = StoreError(q, "Failed to update")]
               /\ teacherRequests' = teacherRequests
          ELSE /\ reqs' = [reqs EXCEPT ![r] =
                             Await(q, "users.updateOne", "trs_users_updateOne")]
               /\ teacherRequests' = UpdateOne(teacherRequests, Eq("id", q.pid),
                                               [status |-> q.body.status])
  /\ UNCHANGED <<enrolls, intents, snapshot, users, classes, nextId, clock>>

\* PATCH /teacher-request-status/:id after the updateOne on the user
TeacherStatusUpdateUser(r) ==
  /\ reqs[r].pc = "trs_users_updateOne"
  /\ \E fail \in BOOLEAN :
       LET q == reqs[r]
       IN IF fail
          THEN /\ reqs' = [reqs EXCEPT ![r] = StoreError(q, "Failed to update")]
               /\ users' = users
          ELSE /\ reqs' = [reqs EXCEPT ![r] =
                             Respond(q, 200, IF snapshot \in BeforeGates
                                             THEN "Rider assigned" ELSE "updated")]
               /\ users' = UpdateOne(users, Eq("email", q.body.email),
                                     [role |-> q.body.role])
  /\ UNCHANGED <<teacherRequests, enrolls, intents, snapshot, classes, nextId, clock>>

\* { $set: { ...updatedData } }: every field of a class document the body
\* holds, with the value the client sent
UpdateClassSet(body) ==
  [f \in {g \in {"email", "status", "enrolled", "price"} :
            body[g] # EmptyBody[g]} |-> body[f]]

\* PUT /update-class/:id after updateOne
UpdateClassUpdate(r) ==
  /\ reqs[r].pc = "updateclass_updateOne"
  /\ \E fail \in BOOLEAN :
       LET q == reqs[r]
       IN IF fail
          THEN /\ reqs' = [reqs EXCEPT ![r] = StoreError(q, "Update failed")]
               /\ classes' = classes
          ELSE /\ reqs' = [reqs EXCEPT ![r] = Respond(q, 200, "modifiedCount")]
               /\ classes' = UpdateOne(classes, Eq("id", q.pid),
                                       UpdateClassSet(q.body))
  /\ UNCHANGED <<teacherRequests, enrolls, intents, snapshot, users, nextId, clock>>

\* PATCH /class-request-status/:id after updateOne
ClassRequestStatusUpdate(r) ==
  /\ reqs[r].pc = "classstatus_updateOne"
  /\ \E fail \in BOOLEAN :
       LET q == reqs[r]
       IN IF fail
          THEN /\ reqs' = [reqs EXCEPT ![r] = StoreError(q, "Failed to update")]
               /\ classes' = classes
          ELSE /\ reqs' = [reqs EXCEPT ![r] =
                             Respond(q, 200, "updates class request")]
               /\ classes' = UpdateOne(classes, Eq("id", q.pid),
                                       [status |-> q.body.status])
  /\ UNCHANGED <<teacherRequests, enrolls, intents, snapshot, users, nextId, clock>>

\* collection.deleteOne(filter): the first matching document removed
DeleteOne(coll, filter) ==
  LET i == FirstIdx(coll, filter)
  IN IF i = 0 THEN coll
     ELSE [k \in 1..(Len(coll) - 1) |-> IF k < i THEN coll[k] ELSE coll[k + 1]]

\* variant: the handler deleting a class of the caller only
MyClassDelete_Owned(r) ==
  /\ reqs[r].pc = "delete_deleteOne"
  /\ \E fail \in BOOLEAN :
       LET q == reqs[r]
           found == FindOne(classes, Eq("id", q.pid), NullClass)
           left == IF found.email = q.decoded
                   THEN DeleteOne(classes, Eq("id", q.pid))
                   ELSE classes
           deletedCount == Len(classes) - Len(left)
       IN IF fail
          THEN /\ reqs' = [reqs EXCEPT ![r] = StoreError(q, "Internal Server Error")]
               /\ classes' = classes
          ELSE /\ reqs' = [reqs EXCEPT ![r] =
                             IF deletedCount = 1
                             THEN Respond(q, 200, "Class deleted successfully")
                             ELSE Respond(q, 404, "Class not found")]
               /\ classes' = left
  /\ UNCHANGED <<teacherRequests, enrolls, intents, snapshot, users, nextId, clock>>

\* DELETE /my-class-delete/:id after deleteOne: deletedCount is the number
\* of documents the store removed
MyClassDelete(r) ==
  /\ reqs[r].pc = "delete_deleteOne"
  /\ \E fail \in BOOLEAN :
       LET q == reqs[r]
           left == DeleteOne(classes, Eq("id", q.pid))
           deletedCount == Len(classes) - Len(left)
       IN IF fail
          THEN /\ reqs' = [reqs EXCEPT ![r] = StoreError(q, "Internal Server Error")]
               /\ classes' = classes
          ELSE /\ reqs' = [reqs EXCEPT ![r] =
                             IF deletedCount = 1
                             THEN Respond(q, 200, "Class deleted successfully")
                             ELSE Respond(q, 404, "Class not found")]
               /\ classes' = left
  /\ UNCHANGED <<teacherRequests, enrolls, intents, snapshot, users, nextId, clock>>

\* ------------------------------------------------------------- specifications

Init ==
  /\ snapshot \in Snapshots
  /\ users \in InitUsers
  /\ classes = InitClasses
  /\ teacherRequests = <<>>
  /\ enrolls = <<>>
  /\ intents = <<>>
  /\ nextId = FirstId
  /\ clock = 0
  /\ reqs = [r \in ReqIds |-> NewReq]

Next ==
  \E r \in 1..MaxReq :
    \/ Arrive(r, HandledRoutes)
    \/ OracleReply(r)
    \/ RoleRead(r)
    \/ Unhandled(r)
    \/ UserFindOne(r)
    \/ UserUpdateOne(r)
    \/ UserInsertOne(r)
    \/ MakeAdminUpdate(r)
    \/ AddClassInsert(r)
    \/ EnrolledUpdate(r)

Spec == Init /\ [][Next]_vars

\* the latest snapshot receiving PATCH /enrolled-update/:id requests only
InitEnroll ==
  /\ Init
  /\ snapshot = "S5"
  /\ users = <<UserDoc(1, "a@x.com", "admin", "verified"),
               UserDoc(2, "b@x.com", "student", "not-verified")>>

NextEnroll ==
  \E r \in 1..MaxEnrollReq :
    \/ Arrive(r, {EnrolledUpdateRoute})
    \/ OracleReply(r)
    \/ EnrolledUpdate(r)

SpecEnroll == InitEnroll /\ [][NextEnroll]_vars

\* the snapshots with class listings, receiving listing requests and
\* PATCH /enrolled-update/:id requests
InitList ==
  /\ snapshot \in {"S3", "S4", "S5"}
  /\ users = <<UserDoc(1, "a@x.com", "admin", "verified"),
               UserDoc(2, "b@x.com", "student", "not-verified")>>
  /\ classes \in {FewClasses, ManyClasses}
  /\ teacherRequests = <<>>
  /\ enrolls = <<>>
  /\ intents = <<>>
  /\ nextId = FirstId
  /\ clock = 0
  /\ reqs = [r \in ReqIds |-> NewReq]

NextList ==
  \E r \in 1..MaxListReq :
    \/ Arrive(r, ListRoutes)
    \/ OracleReply(r)
    \/ RoleRead(r)
    \/ Unhandled(r)
    \/ PaginationCount(r)
    \/ PaginationFind(r)
    \/ ApprovedClassesFind(r)
    \/ TopEnrolledFind(r)
    \/ AdminAddClassFind(r)
    \/ EnrolledUpdate(r)

SpecList == InitList /\ [][NextList]_vars

\* the snapshots with GET /users/search, receiving search requests and
\* PATCH /make-admin/:id requests
InitSearch ==
  /\ Init
  /\ snapshot # "S0"
  /\ users = <<UserDoc(1, "a@x.com", "admin", "verified"),
               UserDoc(2, "b@x.com", "student", "not-verified")>>

NextSearch ==
  \E r \in 1..MaxSearchReq :
    \/ Arrive(r, {UsersSearchRoute, MakeAdminRoute})
    \/ OracleReply(r)
    \/ RoleRead(r)
    \/ Unhandled(r)
    \/ UsersSearchFind(r)
    \/ MakeAdminUpdate(r)

SpecSearch == InitSearch /\ [][NextSearch]_vars

\* the latest snapshot receiving the requests of a purchase: POST
\* /create-payment-intent, POST /enroll-info and PATCH /enrolled-update/:id
NextPay ==
  \E r \in 1..MaxPayReq :
    \/ Arrive(r, {PaymentIntentRoute, EnrollInfoRoute, EnrolledUpdateRoute})
    \/ OracleReply(r)
    \/ Unhandled(r)
    \/ PaymentIntentFindOne(r)
    \/ PaymentIntentCreate(r)
    \/ EnrollInfoInsert(r)
    \/ EnrolledUpdate(r)

SpecPay == InitEnroll /\ [][NextPay]_vars

\* the snapshots with the teacher request routes, receiving POST
\* /teacher-request and PATCH /teacher-request-status/:id requests
InitTeacher ==
  /\ Init
  /\ snapshot # "S0"
  /\ Len(users) = 2

NextTeacher ==
  \E r \in 1..MaxTeacherReq :
    \/ Arrive(r, {TeacherRequestRoute, TeacherRequestStatusRoute})
    \/ OracleReply(r)
    \/ RoleRead(r)
    \/ Unhandled(r)
    \/ TeacherRequestFindOne(r)
    \/ TeacherRequestUpdateOne(r)
    \/ TeacherRequestInsertOne(r)
    \/ TeacherStatusUpdateRequest(r)
    \/ TeacherStatusUpdateUser(r)

SpecTeacher == InitTeacher /\ [][NextTeacher]_vars

\* teachOnLearnNest holding the request of b@x.com an admin approved earlier
ApprovedRequests ==
  <<[id |-> 100, email |-> "b@x.com", status |-> "approved", create_at |-> 0,
     last_request_at |-> 0]>>

\* the snapshots with POST /teacher-request, receiving such requests after
\* the request of b@x.com was approved
InitRerequest ==
  /\ snapshot \in Snapshots \ {"S0"}
  /\ users = <<UserDoc(1, "a@x.com", "admin", "verified"),
               UserDoc(2, "b@x.com", "teacher", "verified")>>
  /\ classes = InitClasses
  /\ teacherRequests = ApprovedRequests
  /\ enrolls = <<>>
  /\ intents = <<>>
  /\ nextId = FirstId
  /\ clock = 0
  /\ reqs = [r \in ReqIds |-> NewReq]

NextRerequest ==
  \E r \in 1..MaxTeacherReq :
    \/ Arrive(r, {TeacherRequestRoute})
    \/ OracleReply(r)
    \/ RoleRead(r)
    \/ Unhandled(r)
    \/ TeacherRequestFindOne(r)
    \/ TeacherRequestUpdateOne(r)
    \/ TeacherRequestInsertOne(r)

SpecRerequest == InitRerequest /\ [][NextRerequest]_vars

\* all-class holding a pending class of b@x.com with two enrollments
\* counted and an approved class of another teacher
TaughtClasses ==
  <<ClassDoc(3, "pending", 2),
    [ClassDoc(5, "approved", 0) EXCEPT !.email = "a@x.com"]>>

\* the latest snapshot receiving the requests that write a class: PUT
\* /update-class/:id, PATCH /class-request-status/:id and PATCH
\* /enrolled-update/:id
InitClass ==
  /\ snapshot = "S5"
  /\ users = <<UserDoc(1, "a@x.com", "admin", "verified"),
               UserDoc(2, "b@x.com", "teacher", "verified")>>
  /\ classes = TaughtClasses
  /\ teacherRequests = <<>>
  /\ enrolls = <<>>
  /\ intents = <<>>
  /\ nextId = FirstId
  /\ clock = 0
  /\ reqs = [r \in ReqIds |-> NewReq]

NextClass ==
  \E r \in 1..MaxClassReq :
    \/ Arrive(r, {UpdateClassRoute, ClassRequestStatusRoute, EnrolledUpdateRoute})
    \/ OracleReply(r)
    \/ RoleRead(r)
    \/ Unhandled(r)
    \/ UpdateClassUpdate(r)
    \/ ClassRequestStatusUpdate(r)
    \/ EnrolledUpdate(r)

SpecClass == InitClass /\ [][NextClass]_vars

\* the latest snapshot receiving the requests that write a UserRecord:
\* POST /user, PATCH /make-admin/:id and PATCH /teacher-request-status/:id
InitRole ==
  /\ snapshot = "S5"
  /\ users \in {<<UserDoc(1, "a@x.com", "admin", "verified")>>,
                <<UserDoc(1, "a@x.com", "admin", "verified"),
                  UserDoc(2, "b@x.com", "student", "not-verified")>>}
  /\ classes = InitClasses
  /\ teacherRequests = <<>>
  /\ enrolls = <<>>
  /\ intents = <<>>
  /\ nextId = FirstId
  /\ clock = 0
  /\ reqs = [r \in ReqIds |-> NewReq]

NextRole ==
  \E r \in 1..MaxRoleReq :
    \/ Arrive(r, {UserRoute, MakeAdminRoute, TeacherRequestStatusRoute})
    \/ OracleReply(r)
    \/ RoleRead(r)
    \/ Unhandled(r)
    \/ UserFindOne(r)
    \/ UserUpdateOne(r)
    \/ UserInsertOne(r)
    \/ MakeAdminUpdate(r)
    \/ TeacherStatusUpdateRequest(r)
    \/ TeacherStatusUpdateUser(r)

SpecRole == InitRole /\ [][NextRole]_vars

\* the snapshots with DELETE /my-class-delete/:id, receiving such requests
InitDelete ==
  /\ snapshot \in {"S4", "S5"}
  /\ users = <<UserDoc(1, "a@x.com", "admin", "verified"),
               UserDoc(2, "b@x.com", "teacher", "verified")>>
  /\ classes = TaughtClasses
  /\ teacherRequests = <<>>
  /\ enrolls = <<>>
  /\ intents = <<>>
  /\ nextId = FirstId
  /\ clock = 0
  /\ reqs = [r \in ReqIds |-> NewReq]

NextDelete ==
  \E r \in 1..MaxDeleteReq :
    \/ Arrive(r, {MyClassDeleteRoute})
    \/ OracleReply(r)
    \/ RoleRead(r)
    \/ Unhandled(r)
    \/ MyClassDelete(r)

SpecDelete == InitDelete /\ [][NextDelete]_vars

\* ------------------------------------------------------------- properties

Has(q, ev) == \E i \in 1..Len(q.log) : q.log[i] = ev

LayerNames == {VFT, VA, VT, H}

StoreCalls ==
  {"users.findOne", "users.updateOne", "users.insertOne", "users.find",
   "classes.insertOne", "classes.updateOne", "classes.countDocuments",
   "classes.find", "classes.findOne", "requests.findOne",
   "requests.updateOne", "requests.insertOne", "enrolls.insertOne"}

\* the layers a request has started, in the order they started
LayersRun(q) == SelectSeq(q.log, LAMBDA ev : ev \in LayerNames)

\* the calls a request has issued to the store
StoreLog(q) == SelectSeq(q.log, LAMBDA ev : ev \in StoreCalls)

Arrived(q) == q.pc # "new"

\* the chain the route of a received request was registered with
Declared(q) == Chains(snapshot)[q.route]

Uses(chain, layer) == \E i \in 1..Len(chain) : chain[i] = layer

\* the role the role gate of a chain asks for
Required(chain) == IF Uses(chain, VA) THEN "admin" ELSE "teacher"

RoleGuarded(q) == Arrived(q) /\ (Uses(Declared(q), VA) \/ Uses(Declared(q), VT))

\* the header is missing, does not start with 'Bearer ', or has nothing
\* between the prefix and the end or the next space
MalformedHeader(h) ==
  \/ ~h.def
  \/ ~StartsWith(h.chars, BearerPrefix)
  \/ Len(h.chars) = Len(BearerPrefix)
  \/ h.chars[Len(BearerPrefix) + 1] = " "

\* C1: on a route guarded by verifyFirebaseToken, a request whose
\* Authorization header is missing, does not start with 'Bearer ' or carries
\* an empty token is answered 401 at once: verifyIdToken is not called, no
\* store call is issued and no layer after verifyFirebaseToken starts.
C1_MalformedHeaderIs401 ==
  \A r \in ReqIds :
    LET q == reqs[r]
    IN (Arrived(q) /\ Uses(Declared(q), VFT) /\ MalformedHeader(q.hdr))
       => /\ q.resp = <<401>>
          /\ q.pc = "done"
          /\ q.log = <<VFT>>
          /\ ~Has(q, "verifyIdToken")
          /\ StoreLog(q) = <<>>

C1_Witness ==
  \E r \in ReqIds :
    /\ RoleGuarded(reqs[r])
    /\ reqs[r].hdr = Str(BearerPrefix)
    /\ reqs[r].resp = <<401>>

\* C2: when verifyIdToken rejects or throws for a well-formed bearer token the
\* request is answered 401, and neither a role gate nor the handler starts,
\* so the request issues no store call.
C2_OracleRejectionIs401 ==
  \A r \in ReqIds :
    LET q == reqs[r]
    IN q.oracle = "rejected"
       => /\ q.resp = <<401>>
          /\ q.pc = "done"
          /\ LayersRun(q) = <<VFT>>
          /\ StoreLog(q) = <<>>

C2_Witness ==
  \E r \in ReqIds :
    /\ RoleGuarded(reqs[r])
    /\ reqs[r].oracle = "rejected"
    /\ reqs[r].token = Str(TokA)
    /\ reqs[r].resp = <<401>>

\* C3: on a route with a role gate, a request with a verified token whose
\* email has no UserRecord, or whose UserRecord (the one findOne returns) has
\* another role than the gate asks for, is answered 403, not 500, and its
\* handler does not start.
C3_WrongRoleIs403 ==
  \A r \in ReqIds :
    LET q == reqs[r]
    IN (RoleGuarded(q) /\ q.gateRead
          /\ (q.user = NullUser \/ q.user.role # Required(Declared(q))))
       => /\ q.resp = <<403>>
          /\ q.pc = "done"
          /\ ~Has(q, H)

C3_Witness ==
  /\ \E r \in ReqIds :
       /\ Uses(reqs[r].chain, VA) /\ reqs[r].gateRead
       /\ reqs[r].user = NullUser /\ reqs[r].resp = <<403>>
  /\ \E r \in ReqIds :
       /\ Uses(reqs[r].chain, VT) /\ reqs[r].gateRead
       /\ reqs[r].user.role = "admin" /\ reqs[r].resp = <<403>>

\* C4: on a route with a role gate, a request with a verified token whose
\* UserRecord has exactly the role the gate asks for passes the whole chain:
\* no gate answers it and its handler starts.
C4_RightRoleRunsHandler ==
  \A r \in ReqIds :
    LET q == reqs[r]
    IN (RoleGuarded(q) /\ q.gateRead
          /\ q.user # NullUser /\ q.user.role = Required(Declared(q)))
       => /\ Has(q, H)
          /\ LayersRun(q) = Declared(q)
          /\ q.resp \notin {<<401>>, <<403>>}

C4_Witness ==
  /\ \E r \in ReqIds :
       /\ reqs[r].route = MakeAdminRoute /\ reqs[r].user.role = "admin"
       /\ reqs[r].gateRead /\ reqs[r].msg = "modifiedCount"
  /\ \E r \in ReqIds :
       /\ reqs[r].route = AddClassRoute /\ reqs[r].user.role = "teacher"
       /\ reqs[r].gateRead /\ reqs[r].msg = "Add class saved in db"

IsPrefix(s, t) == Len(s) <= Len(t) /\ s = SubSeq(t, 1, Len(s))

\* the last layer a request started
LastLayer(q) == LayersRun(q)[Len(LayersRun(q))]

\* C5: within one request the layers run in declaration order; a layer starts
\* only after the one before it succeeded (the token was accepted before a
\* role gate or a handler behind verifyFirebaseToken starts, the role matched
\* before a handler behind a role gate starts); a gate that fails sends the
\* only response of the request and nothing of the chain runs after it.
C5_GatesRunInOrder ==
  \A r \in ReqIds :
    LET q == reqs[r]
    IN Arrived(q) =>
         /\ IsPrefix(LayersRun(q), Declared(q))
         /\ LayersRun(q) # <<>>
         /\ Len(q.resp) <= 1
         /\ (Len(LayersRun(q)) > 1 /\ Uses(Declared(q), VFT))
              => q.oracle = "accepted"
         /\ (Has(q, H) /\ RoleGuarded(q))
              => (q.gateRead /\ q.user.role = Required(Declared(q)))
         /\ (q.resp = <<401>>)
              => (q.pc = "done" /\ LastLayer(q) = VFT
                  /\ q.log[Len(q.log)] \in {VFT, "verifyIdToken"})
         /\ (q.resp = <<403>>)
              => (q.pc = "done" /\ LastLayer(q) \in {VA, VT}
                  /\ q.log[Len(q.log)] = "users.findOne")

C5_Witness ==
  \E r1, r2 \in ReqIds :
    /\ reqs[r1].resp = <<401>> /\ reqs[r1].oracle = "rejected"
    /\ reqs[r2].resp = <<403>> /\ reqs[r2].oracle = "accepted"

\* C6: in every snapshot each route that registers verifyAdmin or
\* verifyTeacher registers verifyFirebaseToken before it, and a role gate
\* only ever starts for a request whose req.decoded an accepted token set.
C6_RoleGateAfterToken ==
  /\ \A s \in Snapshots : \A route \in DOMAIN Chains(s) :
       LET chain == Chains(s)[route]
       IN \A i \in 1..Len(chain) :
            chain[i] \in {VA, VT} => \E j \in 1..(i - 1) : chain[j] = VFT
  /\ \A r \in ReqIds :
       (Has(reqs[r], VA) \/ Has(reqs[r], VT))
         => (reqs[r].oracle = "accepted" /\ reqs[r].decoded \in Emails)

C6_Witness ==
  \E r \in ReqIds :
    /\ Has(reqs[r], VT)
    /\ reqs[r].decoded = "b@x.com"
    /\ reqs[r].pc = "role_findOne"

GatePcs == {"new", "verifyIdToken", "role_findOne", "rejected"}

\* C7: the gates never change the store: a step a request takes in
\* verifyFirebaseToken, verifyAdmin or verifyTeacher leaves both collections
\* as they were; before its handler starts a request has issued no store call
\* but the one findOne on users of its role gate.
C7_GatesLeaveStore ==
  /\ [](\A r \in ReqIds :
          (Arrived(reqs[r]) /\ ~Has(reqs[r], H))
            => StoreLog(reqs[r]) =
                 IF Has(reqs[r], VA) \/ Has(reqs[r], VT)
                 THEN <<"users.findOne">> ELSE <<>>)
  /\ [][\A r \in ReqIds :
          (reqs[r].pc \in GatePcs /\ reqs'[r] # reqs[r]
             /\ (reqs[r].pc = "new" => Head(reqs'[r].log) # H))
            => (users' = users /\ classes' = classes)]_vars

C7_Witness ==
  \E r \in ReqIds :
    /\ reqs[r].gateRead
    /\ reqs[r].user = NullUser
    /\ reqs[r].resp = <<403>>
    /\ \A i \in 1..Len(users) : users[i].email # reqs[r].decoded

WithEmail(e) == {i \in 1..Len(users) : users[i].email = e}

\* r1 then r2 are the only requests so far: two POST /user calls with the
\* same email, answered 200, the second received after the first was
\* answered, the first received when no record had its email
SequentialUserCalls(r1, r2) ==
  /\ r1 < r2
  /\ reqs[r1].route = UserRoute /\ reqs[r2].route = UserRoute
  /\ reqs[r1].body.email = reqs[r2].body.email
  /\ reqs[r1].had = 0
  /\ reqs[r2].idle
  /\ reqs[r1].resp = <<200>> /\ reqs[r2].resp = <<200>>
  /\ \A r \in ReqIds \ {r1, r2} : ~Arrived(reqs[r])

\* C8: in every snapshot, for POST /user calls that do not overlap: the first
\* call with an email not yet in users inserts one record with role
\* 'student'; a second call with the same email leaves exactly one record
\* with that email and changes only its last_loggedIn.
C8_SequentialUpsert ==
  /\ \A r1 \in ReqIds :
       (/\ reqs[r1].route = UserRoute /\ reqs[r1].had = 0
        /\ reqs[r1].resp = <<200>>
        /\ \A r \in ReqIds \ {r1} : ~Arrived(reqs[r]))
       => \E i \in 1..Len(users) :
            /\ WithEmail(reqs[r1].body.email) = {i}
            /\ users[i].role = "student"
  /\ \A r1, r2 \in ReqIds :
       SequentialUserCalls(r1, r2)
       => \E i \in 1..Len(users) :
            /\ WithEmail(reqs[r1].body.email) = {i}
            /\ users[i] = [UserData(reqs[r1], users[i].id)
                             EXCEPT !.last_loggedIn = reqs[r2].t1]

\* the statement of C8 for the snapshots after the earliest one
C8_LaterSnapshots == snapshot # "S0" => C8_SequentialUpsert

C8_LaterWitness ==
  \E r1, r2 \in ReqIds :
    /\ SequentialUserCalls(r1, r2)
    /\ snapshot = "S5"
    /\ reqs[r2].msg = "User already exists"

\* both requests looked their email up and found no record, and both were
\* answered with the result of insertOne
BothInserted(r1, r2) ==
  /\ r1 # r2
  /\ reqs[r1].route = UserRoute /\ reqs[r2].route = UserRoute
  /\ reqs[r1].body.email = reqs[r2].body.email
  /\ reqs[r1].msg = "insertedId" /\ reqs[r2].msg = "insertedId"
  /\ reqs[r1].found = NullUser /\ reqs[r2].found = NullUser

\* C9: two POST /user requests with the same new email whose findOne both
\* saw no record both run insertOne, and each insertOne adds a record: the
\* collection then holds two UserRecords with that email.
C9_RaceInsertsTwice ==
  \A r1, r2 \in ReqIds :
    BothInserted(r1, r2)
      => Cardinality(WithEmail(reqs[r1].body.email)) >= reqs[r1].had + 2

C9_Witness ==
  \E r1, r2 \in ReqIds :
    /\ BothInserted(r1, r2)
    /\ snapshot = "S5"
    /\ reqs[r1].had = 0 /\ reqs[r2].had = 0
    /\ Cardinality(WithEmail(reqs[r1].body.email)) = 2

EnrollDone(c) ==
  {r \in ReqIds : /\ reqs[r].route = EnrolledUpdateRoute
                  /\ reqs[r].pid = c
                  /\ reqs[r].resp = <<200>>}

\* C10: the class starts with enrolled = 0; however the PATCH
\* /enrolled-update/:id requests on it interleave, its enrolled count equals
\* the number of those requests that have been answered 200, so once N of
\* them have completed it is exactly N.
C10_NoLostIncrement ==
  \A i \in 1..Len(classes) :
    classes[i].enrolled = Cardinality(EnrollDone(classes[i].id))

C10_Witness ==
  /\ \A r \in 1..MaxEnrollReq : reqs[r].resp = <<200>>
  /\ classes[1].enrolled = MaxEnrollReq

\* the approved classes before classes[i], classes[i] included
ApprovedUpTo(i) == {j \in 1..i : classes[j].status = "approved"}

\* the n-th approved class in natural order
NthApproved(n) ==
  classes[CHOOSE i \in 1..Len(classes) :
            classes[i].status = "approved" /\ Cardinality(ApprovedUpTo(i)) = n]

PageAnswered(q) == q.route = PaginationRoute /\ q.resp = <<200>>

\* C11: GET /approved-classes-pagination answers total = the number of
\* approved classes, totalPages = the ceiling of total / page size, and data
\* = the approved classes from offset page * size on, at most size of them;
\* with page size 6 and 13 approved classes totalPages is 3, page index 2 has
\* exactly 1 record and a page index past the last has none, total still 13.
C11_Pagination ==
  /\ [](\A r \in ReqIds :
          PageAnswered(reqs[r]) =>
            LET pg == reqs[r].paging
            IN /\ pg.totalPages * pg.limit.val >= pg.total
               /\ (pg.totalPages - 1) * pg.limit.val < pg.total
               /\ (pg.limit.val = 6 /\ pg.total = 13) =>
                    /\ pg.totalPages = 3
                    /\ pg.pageNo.val = 2 => Len(reqs[r].data) = 1
                    /\ pg.pageNo.val > 2 => reqs[r].data = <<>>)
  /\ [][\A r \in ReqIds :
          (reqs[r].pc = "page_countDocuments" /\ reqs'[r].pc = "page_find")
            => reqs'[r].paging.total = Cardinality(ApprovedUpTo(Len(classes)))]_vars
  /\ [][\A r \in ReqIds :
          (reqs[r].pc = "page_find" /\ PageAnswered(reqs'[r]))
            => LET pg == reqs'[r].paging
                   offset == pg.pageNo.val * pg.limit.val
                   left == Cardinality(ApprovedUpTo(Len(classes))) - offset
                   data == reqs'[r].data
               IN /\ offset >= 0
                  /\ Len(data) = IF left < 0 THEN 0
                                 ELSE IF left < pg.limit.val THEN left
                                 ELSE pg.limit.val
                  /\ \A k \in 1..Len(data) : data[k] = NthApproved(offset + k)]_vars

C11_Witness ==
  \E r1, r2 \in ReqIds :
    /\ PageAnswered(reqs[r1]) /\ PageAnswered(reqs[r2])
    /\ reqs[r1].paging.total = 13 /\ reqs[r2].paging.total = 13
    /\ reqs[r1].paging.limit = Num(6) /\ reqs[r2].paging.limit = Num(6)
    /\ reqs[r1].paging.pageNo = Num(2) /\ Len(reqs[r1].data) = 1
    /\ reqs[r1].paging.totalPages = 3
    /\ reqs[r2].paging.pageNo = Num(3) /\ reqs[r2].data = <<>>

PublicListings == {PaginationRoute, ApprovedClassesRoute, TopEnrolledRoute}

\* C12: a listing that needs no token (/approved-classes-pagination,
\* /approved-classes, /top-enrolled-classes) answers only classes whose status
\* is 'approved'; the listing behind the admin gate (/admin-add-class)
\* answers every class of the collection whatever its status.
C12_PublicListingsApprovedOnly ==
  \A r \in ReqIds :
    LET q == reqs[r]
    IN /\ (q.route \in PublicListings /\ q.resp = <<200>>)
            => \A k \in 1..Len(q.data) : q.data[k].status = "approved"
       /\ (q.route = AdminAddClassRoute /\ q.resp = <<200>>)
            => /\ Len(q.data) = Len(classes)
               /\ \A k \in 1..Len(classes) :
                    /\ q.data[k].id = classes[k].id
                    /\ q.data[k].status = classes[k].status

\* the part of C12 the listings that filter on status satisfy
C12_StatusFilteredListings ==
  \A r \in ReqIds :
    LET q == reqs[r]
    IN /\ (q.route \in PublicListings \ {TopEnrolledRoute} /\ q.resp = <<200>>)
            => \A k \in 1..Len(q.data) : q.data[k].status = "approved"
       /\ (q.route = AdminAddClassRoute /\ q.resp = <<200>>)
            => /\ Len(q.data) = Len(classes)
               /\ \A k \in 1..Len(classes) :
                    /\ q.data[k].id = classes[k].id
                    /\ q.data[k].status = classes[k].status

\* the request is a PATCH /make-admin/:id whose updateOne the store applies
\* in this step
MakeAdminApplied(r) ==
  /\ reqs[r].route = MakeAdminRoute
  /\ reqs[r].pc = "makeadmin_updateOne"
  /\ reqs'[r].resp = <<200>>

\* C13: the updateOne of a PATCH /make-admin/:id request sets the role of the
\* UserRecord with that id to the role of the body and its status to
\* 'verified'; every other field of that record, every other UserRecord and
\* the other collections stay as they were. With role 'admin' in the body the
\* target's role becomes 'admin'.
C13_MakeAdminFrame ==
  [][\A r \in ReqIds :
       MakeAdminApplied(r)
         => /\ Len(users') = Len(users)
            /\ \A i \in 1..Len(users) :
                 users'[i] = IF users[i].id = reqs[r].pid
                             THEN [users[i] EXCEPT !.role = reqs[r].body.role,
                                                   !.status = "verified"]
                             ELSE users[i]
            /\ UNCHANGED <<classes, teacherRequests, enrolls, intents>>]_vars

C13_Witness ==
  \E r \in ReqIds :
    /\ reqs[r].route = MakeAdminRoute /\ reqs[r].resp = <<200>>
    /\ reqs[r].gateRead /\ reqs[r].user.role = "admin"
    /\ reqs[r].body.role = "admin" /\ reqs[r].pid = 2
    /\ users = <<UserDoc(1, "a@x.com", "admin", "verified"),
                 UserDoc(2, "b@x.com", "admin", "verified")>>

\* the request is a GET /users/search without an email query, by a caller
\* the admin gate let through, whose find the store answers in this step
UnfilteredSearchAnswered(r) ==
  /\ reqs[r].route = UsersSearchRoute
  /\ reqs[r].pc = "search_find"
  /\ reqs'[r].resp = <<200>>
  /\ Falsy(reqs[r].query.email)
  /\ reqs[r].gateRead /\ reqs[r].user.role = "admin"

\* C14: a GET /users/search request without an email query by an admin
\* caller is answered with every UserRecord whose email differs from the
\* caller's verified email, and with no record that has the caller's email.
C14_SearchExcludesCaller ==
  [][\A r \in ReqIds :
       UnfilteredSearchAnswered(r)
         => LET data == reqs'[r].data
            IN /\ \A k \in 1..Len(data) :
                    /\ data[k].email # reqs[r].decoded
                    /\ \E i \in 1..Len(users) : users[i] = data[k]
               /\ \A i \in 1..Len(users) :
                    users[i].email # reqs[r].decoded
                      => \E k \in 1..Len(data) : data[k] = users[i]]_vars

C14_Witness ==
  \E r1, r2 \in ReqIds :
    /\ reqs[r1].route = MakeAdminRoute /\ reqs[r1].resp = <<200>>
    /\ reqs[r1].pid = 2 /\ reqs[r1].body.role = "admin"
    /\ reqs[r2].route = UsersSearchRoute /\ reqs[r2].resp = <<200>>
    /\ reqs[r2].query.email = Undefined
    /\ reqs[r2].decoded = "b@x.com" /\ reqs[r2].user.role = "admin"
    /\ reqs[r2].data = <<UserDoc(1, "a@x.com", "admin", "verified")>>

\* the handler of a POST /create-payment-intent request has run to its end
PaymentIntentOver(q) ==
  q.route = PaymentIntentRoute /\ Has(q, H) /\ q.pc \in {"done", "hung"}

ClassWithId(id) == {i \in 1..Len(classes) : classes[i].id = id}

\* the calls the provider got from request r
CreateCalls(r) == {i \in 1..Len(intents) : intents[i].by = r}

\* the three outcomes C15 names, for a request whose handler is over
PaymentIntentOutcome(r) ==
  LET q == reqs[r]
  IN IF ClassWithId(q.body.courseId) = {}
     THEN q.resp = <<404>> /\ CreateCalls(r) = {}
     ELSE IF Has(q, "paymentIntents.create") /\ q.failed
     THEN q.resp = <<500>>
     ELSE /\ q.resp = <<200>> /\ q.msg = "clientSecret"
          /\ \E i \in 1..Len(intents) :
               /\ CreateCalls(r) = {i}
               /\ intents[i].currency = "usd"
               /\ \E c \in ClassWithId(q.body.courseId) :
                    intents[i].amount = classes[c].price * 100

\* C15: POST /create-payment-intent by an authenticated caller: when no class
\* has the given courseId the answer is 404 and the provider is not called;
\* when the provider call fails the answer is 500; otherwise the provider is
\* called once with amount = price * 100 in 'usd' and the answer carries the
\* clientSecret only.
C15_PaymentIntentOutcomes ==
  \A r \in ReqIds : PaymentIntentOver(reqs[r]) => PaymentIntentOutcome(r)

\* the statement of C15 for a courseId that is a well-formed ObjectId and a
\* store that answers the findOne
C15_WellFormedCourseId ==
  \A r \in ReqIds :
    (/\ PaymentIntentOver(reqs[r])
     /\ reqs[r].body.courseId # BadId
     /\ reqs[r].failed => Has(reqs[r], "paymentIntents.create"))
      => PaymentIntentOutcome(r)

C15_WellFormedWitness ==
  \E r1, r2 \in ReqIds :
    /\ PaymentIntentOver(reqs[r1]) /\ reqs[r1].resp = <<404>>
    /\ PaymentIntentOver(reqs[r2]) /\ reqs[r2].resp = <<200>>
    /\ intents = <<[amount |-> 1000, currency |-> "usd", by |-> r2]>>

\* C16: no step of a POST /create-payment-intent request changes a
\* collection: it inserts no enrollment record and leaves the enrolled count
\* of the class as it was; enrolled-classes grows only by the insertOne of a
\* POST /enroll-info request.
C16_PaymentIntentLeavesStore ==
  /\ [][\A r \in ReqIds :
          (reqs'[r].route = PaymentIntentRoute /\ reqs'[r] # reqs[r])
            => UNCHANGED <<users, classes, teacherRequests, enrolls>>]_vars
  /\ [][enrolls' # enrolls
          => \E r \in ReqIds :
               /\ reqs[r].route = EnrollInfoRoute
               /\ reqs[r].pc = "enroll_insertOne"
               /\ reqs'[r].resp = <<201>>
               /\ enrolls' = Append(enrolls, enrolls'[Len(enrolls')])]_vars

C16_Witness ==
  \E r1, r2 \in ReqIds :
    /\ reqs[r1].route = PaymentIntentRoute /\ reqs[r1].msg = "clientSecret"
    /\ reqs[r2].route = EnrollInfoRoute /\ reqs[r2].resp = <<201>>
    /\ reqs[r2].idle
    /\ Len(enrolls) = 1 /\ enrolls[1].courseId = 3
    /\ classes = InitClasses

\* C17: on every route, a request one of whose store or provider calls (in
\* the handler or in the role gate before it) failed is answered 500; none
\* is left without a response.
C17_FailureAnswered500 ==
  \A r \in ReqIds :
    (reqs[r].failed /\ reqs[r].pc \in {"done", "hung"})
      => reqs[r].resp = <<500>>

\* the first updateOne of a PATCH /teacher-request-status/:id request is
\* applied in this step
FirstUpdateApplied(r) ==
  reqs[r].pc = "trs_requests_updateOne" /\ reqs'[r].pc = "trs_users_updateOne"

\* the second updateOne of the request fails in this step
SecondUpdateFails(r) ==
  reqs[r].pc = "trs_users_updateOne" /\ reqs'[r].failed

\* C18: in PATCH /teacher-request-status/:id the first updateOne sets the
\* status of the teacher request; when the updateOne on the UserRecord that
\* follows fails, that step undoes nothing and retries nothing (the request
\* keeps its new status, the role stays as it was) and the caller is
\* answered 500, not the success message.
C18_NoRollback ==
  /\ [][\A r \in ReqIds :
          FirstUpdateApplied(r)
            => \A i \in 1..Len(teacherRequests) :
                 teacherRequests[i].id = reqs[r].pid
                   => teacherRequests'[i].status = reqs[r].body.status]_vars
  /\ [][\A r \in ReqIds :
          SecondUpdateFails(r)
            => /\ UNCHANGED <<teacherRequests, users>>
               /\ reqs'[r].pc = "done"
               /\ reqs'[r].resp = <<500>>
               /\ reqs'[r].msg \notin {"updated", "Rider assigned"}]_vars

C18_Witness ==
  \E r \in ReqIds :
    /\ reqs[r].route = TeacherRequestStatusRoute
    /\ Has(reqs[r], "users.updateOne") /\ reqs[r].failed
    /\ reqs[r].resp = <<500>>
    /\ reqs[r].body.status = "approved" /\ reqs[r].body.role = "teacher"
    /\ \E i \in 1..Len(teacherRequests) :
         teacherRequests[i].id = reqs[r].pid /\ teacherRequests[i].status = "approved"
    /\ \E j \in 1..Len(users) :
         users[j].email = reqs[r].body.email /\ users[j].role = "student"

\* C19: in every reachable state the role of every UserRecord is one of
\* 'student', 'teacher', 'admin'.
C19_RoleInEnum == \A i \in 1..Len(users) : users[i].role \in Roles

\* C20: POST /teacher-request asks for a valid token only: a caller whose
\* token was accepted reaches the handler whatever the role of their
\* UserRecord, also with no record at all, and is never answered 403.
C20_TeacherRequestTokenOnly ==
  \A r \in ReqIds :
    (reqs[r].route = TeacherRequestRoute /\ reqs[r].oracle = "accepted")
      => /\ reqs[r].resp # <<403>>
         /\ reqs[r].pc \in {"done", "hung"} => Has(reqs[r], H)

\* the statement of C20 for the snapshots other than the one that put
\* verifyTeacher in front of the route
C20_OtherSnapshots == snapshot # "S3" => C20_TeacherRequestTokenOnly

C20_OtherWitness ==
  \E r \in ReqIds :
    /\ snapshot = "S5"
    /\ reqs[r].route = TeacherRequestRoute /\ reqs[r].decoded = "b@x.com"
    /\ reqs[r].msg = "insertedId"
    /\ \E j \in 1..Len(users) :
         users[j].email = "b@x.com" /\ users[j].role = "student"

\* the updateOne of a POST /teacher-request for an email that has a request
\* is applied in this step
ReRequestApplied(r) ==
  reqs[r].pc = "treq_updateOne" /\ reqs'[r].resp = <<200>>

AlreadyExists == {"Already exists", "User already exists"}

\* C21: a POST /teacher-request for an email that already has a teacher
\* request inserts nothing, is answered 200 with an 'already exists' message
\* and changes only last_request_at of the existing record: its status and
\* every other field stay as they were.
C21_ReRequestTimestampOnly ==
  [][\A r \in ReqIds :
       ReRequestApplied(r)
         => /\ reqs'[r].msg \in AlreadyExists
            /\ Len(teacherRequests') = Len(teacherRequests)
            /\ \A i \in 1..Len(teacherRequests) :
                 teacherRequests'[i] =
                   [teacherRequests[i] EXCEPT
                      !.last_request_at = teacherRequests'[i].last_request_at]]_vars

\* C21 as amended: the existing record changes in last_request_at and in
\* status, which becomes 'pending'; nothing is inserted and no other record
\* or field changes.
C21_ReRequestResetsStatus ==
  [][\A r \in ReqIds :
       ReRequestApplied(r)
         => /\ reqs'[r].msg \in AlreadyExists
            /\ Len(teacherRequests') = Len(teacherRequests)
            /\ \A i \in 1..Len(teacherRequests) :
                 teacherRequests'[i] =
                   IF /\ teacherRequests[i].email = reqs[r].body.email
                      /\ \A j \in 1..(i - 1) :
                           teacherRequests[j].email # reqs[r].body.email
                   THEN [teacherRequests[i] EXCEPT
                           !.status = "pending", !.last_request_at = reqs[r].t1]
                   ELSE teacherRequests[i]
            /\ UNCHANGED <<users, classes, enrolls, intents>>]_vars

C21_Witness ==
  \E r \in ReqIds :
    /\ reqs[r].route = TeacherRequestRoute /\ reqs[r].resp = <<200>>
    /\ reqs[r].msg = "Already exists" /\ reqs[r].idle
    /\ teacherRequests =
         <<[ApprovedRequests[1] EXCEPT !.status = "pending",
                                       !.last_request_at = reqs[r].t1]>>
    /\ reqs[r].t1 > 0

\* a PATCH /teacher-request-status/:id request is answered 'updated' in
\* this step
AnsweredUpdated(r) ==
  /\ reqs[r].route = TeacherRequestStatusRoute
  /\ reqs[r].pc = "trs_users_updateOne"
  /\ reqs'[r].msg = "updated"

\* C22: whenever PATCH /teacher-request-status/:id answers 'updated', the
\* teacher request with that id has the status of the body and the
\* UserRecord with the email of that request has the role of the body.
C22_UpdatedMeansCoupled ==
  [][\A r \in ReqIds :
       AnsweredUpdated(r)
         => \A i \in 1..Len(teacherRequests') :
              teacherRequests'[i].id = reqs[r].pid
                => /\ teacherRequests'[i].status = reqs[r].body.status
                   /\ \A j \in 1..Len(users') :
                        users'[j].email = teacherRequests'[i].email
                          => users'[j].role = reqs[r].body.role]_vars

\* what the answer 'updated' does tell: the first UserRecord with the email
\* the body names has the role of the body
C22_NamedUserHasRole ==
  [][\A r \in ReqIds :
       AnsweredUpdated(r)
         => \A j \in 1..Len(users') :
              (/\ users'[j].email = reqs[r].body.email
               /\ \A k \in 1..(j - 1) : users'[k].email # reqs[r].body.email)
                => users'[j].role = reqs[r].body.role]_vars

\* C23: the enrolled field of a class is changed only by +1: no request
\* overwrites it with a value the client supplies.
C23_EnrolledOnlyIncremented ==
  [][\A i \in 1..Len(classes) :
       (Len(classes') = Len(classes) /\ classes'[i].enrolled # classes[i].enrolled)
         => classes'[i].enrolled = classes[i].enrolled + 1]_vars

\* a request that called next() from verifyAdmin
PassedAdminGate(q) ==
  /\ Has(q, VA)
  /\ Has(q, H)
  /\ q.gateRead
  /\ q.user.role = "admin"

\* C28: in the latest snapshot the status of a class is changed only by a
\* PATCH /class-request-status/:id request that passed the admin gate.
C28_StatusOnlyByAdmin ==
  [][\A i \in 1..Len(classes) :
       (/\ snapshot = "S5"
        /\ Len(classes') = Len(classes)
        /\ classes'[i].status # classes[i].status)
         => \E r \in ReqIds :
              /\ reqs[r].route = ClassRequestStatusRoute
              /\ reqs[r].pc = "classstatus_updateOne"
              /\ reqs'[r].pc = "done"
              /\ PassedAdminGate(reqs[r])]_vars

\* request r is in the findOne of verifyAdmin and the store answers in this
\* step
AdminGateAnswers(r) ==
  /\ reqs[r].pc = "role_findOne"
  /\ Head(reqs[r].chain) = VA
  /\ reqs'[r].gateRead

\* the UserRecord the store holds for the caller of request r
StoredCaller(r) == FindOne(users, Eq("email", reqs[r].decoded), NullUser)

\* C24: every request on an admin-guarded route has its own token verified
\* and its caller's role read from the store as it is when the gate runs:
\* the gate answers 403 exactly when the stored role is not 'admin' at that
\* moment, whatever earlier requests with the same token were answered.
C24_RoleReadAfresh ==
  [][\A r \in ReqIds :
       AdminGateAnswers(r)
         => /\ Has(reqs[r], "verifyIdToken")
            /\ reqs[r].oracle = "accepted"
            /\ reqs'[r].user = StoredCaller(r)
            /\ (reqs'[r].resp = <<403>>) <=> (StoredCaller(r).role # "admin")
            /\ (StoredCaller(r).role = "admin") => Has(reqs'[r], H)]_vars

\* the admin passed the gate, lost the role, and the next request with the
\* same token is answered 403
C24_Witness ==
  \E r1, r2 \in ReqIds :
    /\ reqs[r1].token = Str(TokA) /\ reqs[r2].token = Str(TokA)
    /\ reqs[r1].route = MakeAdminRoute /\ reqs[r1].msg = "modifiedCount"
    /\ reqs[r1].pid = 1 /\ reqs[r1].body.role = "student"
    /\ reqs[r2].route = MakeAdminRoute /\ reqs[r2].resp = <<403>>
    /\ reqs[r2].user.role = "student"

\* a student was made admin and the next request with the student's token
\* passes the gate
C24_PromotedWitness ==
  \E r1, r2 \in ReqIds :
    /\ reqs[r1].token = Str(TokA) /\ reqs[r1].msg = "modifiedCount"
    /\ reqs[r1].pid = 2 /\ reqs[r1].body.role = "admin"
    /\ reqs[r2].token = Str(TokB) /\ reqs[r2].route = MakeAdminRoute
    /\ reqs[r2].user.role = "admin" /\ Has(reqs[r2], H)

\* request r takes the step
Steps(r) == reqs'[r] # reqs[r]

\* C26: in the latest snapshot every step that changes the role of a
\* UserRecord is taken by a request that passed the admin gate; a record that
\* is created has role 'student' and status 'not-verified' whatever the body
\* said; POST /user leaves role and status of the existing records as they
\* were.
C26_RoleWritesBehindAdminGate ==
  [][/\ \A i \in 1..Len(users) :
          users'[i].role # users[i].role
            => \E r \in ReqIds :
                 /\ Steps(r)
                 /\ PassedAdminGate(reqs[r])
                 /\ reqs[r].route \in {MakeAdminRoute, TeacherRequestStatusRoute}
     /\ Len(users') > Len(users)
          => /\ users'[Len(users')].role = "student"
             /\ users'[Len(users')].status = "not-verified"
     /\ \A r \in ReqIds :
          (Steps(r) /\ reqs[r].route = UserRoute)
            => \A i \in 1..Len(users) :
                 /\ users'[i].role = users[i].role
                 /\ users'[i].status = users[i].status]_vars

\* POST /user created the record of b@x.com, the admin changed a role, and a
\* request of a caller that is no admin was stopped at the gate
C26_Witness ==
  /\ \E r \in ReqIds : reqs[r].route = UserRoute /\ reqs[r].msg = "insertedId"
  /\ \E i \in 1..Len(users) :
       users[i].email = "b@x.com" /\ users[i].role = "student"
  /\ \E r \in ReqIds :
       /\ reqs[r].route = MakeAdminRoute
       /\ reqs[r].token = Str(TokB)
       /\ reqs[r].resp = <<403>>

\* the store applies a write of a handler behind the admin gate in this step
AdminWriteApplied(r) ==
  /\ reqs[r].pc \in {"makeadmin_updateOne", "trs_requests_updateOne",
                      "trs_users_updateOne"}
  /\ Steps(r)
  /\ ~reqs'[r].failed

\* C27: at the moment the write of an admin-guarded handler is applied, the
\* stored role of the caller is 'admin'.
C27_CallerAdminAtWrite ==
  [][\A r \in ReqIds :
       AdminWriteApplied(r) => StoredCaller(r).role = "admin"]_vars

\* C27, amended: at the moment the write of an admin-guarded handler is
\* applied, the role gate of the same request had read the role 'admin' for
\* the caller; the stored role may have changed since.
C27_GateHadReadAdmin ==
  [][\A r \in ReqIds :
       AdminWriteApplied(r)
         => /\ PassedAdminGate(reqs[r])
            /\ reqs[r].user.email = reqs[r].decoded]_vars

\* two requests of the admin passed the gate and both took the admin's role
\* away: the second of the writes was applied when the caller was a student
C27_Witness ==
  \E r1, r2 \in ReqIds :
    /\ r1 # r2
    /\ \A r \in {r1, r2} :
         /\ reqs[r].route = MakeAdminRoute
         /\ reqs[r].token = Str(TokA)
         /\ reqs[r].pid = 1
         /\ reqs[r].body.role = "student"
         /\ reqs[r].msg = "modifiedCount"

\* a limit parameter that is absent, 0 or no number
NoPageSize(limit) ==
  \/ limit = Undefined
  \/ ParseInt(limit).nan
  \/ ParseInt(limit) = Num(0)

\* C25: GET /approved-classes-pagination uses page size 6 when the limit
\* parameter is absent, 0 or no number; an answered page holds at most page
\* size records, all of them approved, and its total is the number of approved
\* classes of the collection.
C25_PageSizeAndTotal ==
  \A r \in ReqIds :
    LET q == reqs[r]
    IN (q.route = PaginationRoute /\ Arrived(q))
         => /\ NoPageSize(q.query.limit) => q.paging.limit = Num(6)
            /\ ~NoPageSize(q.query.limit) => q.paging.limit = ParseInt(q.query.limit)
            /\ q.resp = <<200>>
                 => /\ Len(q.data) <= q.paging.limit.val
                    /\ \A k \in 1..Len(q.data) : q.data[k].status = "approved"
                    /\ q.paging.total =
                         Cardinality({i \in 1..Len(classes) :
                                        classes[i].status = "approved"})

\* a page asked with limit=0 and a page asked without limit, both answered
\* with 6 of the 13 approved classes
C25_Witness ==
  \E r1, r2 \in ReqIds :
    /\ reqs[r1].route = PaginationRoute /\ reqs[r2].route = PaginationRoute
    /\ reqs[r1].query.limit = Str(<<"0">>) /\ reqs[r2].query.limit = Undefined
    /\ \A r \in {r1, r2} :
         /\ reqs[r].resp = <<200>>
         /\ Len(reqs[r].data) = 6
         /\ reqs[r].paging.total = 13
         /\ Len(classes) = 15

\* the enrollment records of the class with this id
EnrollmentsOf(id) == {j \in 1..Len(enrolls) : enrolls[j].courseId = id}

\* C29: for each class the enrolled counter equals the number of enrollment
\* records of the class: POST /enroll-info and PATCH /enrolled-update/:id
\* always take effect together.
C29_CounterEqualsRecords ==
  \A i \in 1..Len(classes) :
    classes[i].enrolled = Cardinality(EnrollmentsOf(classes[i].id))

\* C29, amended: a POST /enroll-info answered 201 inserts one enrollment
\* record and changes no class; a PATCH /enrolled-update/:id answered 200
\* raises the counter of the class with that id by 1 and inserts no
\* enrollment record.
C29_EachStepAlone ==
  [][\A r \in ReqIds :
       /\ (reqs[r].pc = "enroll_insertOne" /\ reqs'[r].resp = <<201>>)
            => /\ Len(enrolls') = Len(enrolls) + 1
               /\ SubSeq(enrolls', 1, Len(enrolls)) = enrolls
               /\ enrolls'[Len(enrolls')].courseId = reqs[r].body.courseId
               /\ classes' = classes
       /\ (reqs[r].pc = "enrolled_updateOne" /\ reqs'[r].resp = <<200>>)
            => /\ enrolls' = enrolls
               /\ Len(classes') = Len(classes)
               /\ \A i \in 1..Len(classes) :
                    classes'[i].enrolled =
                      classes[i].enrolled
                        + (IF classes[i].id = reqs[r].pid THEN 1 ELSE 0)]_vars

\* an enrollment was recorded by one request and the counter of the class
\* was raised by another
C29_Witness ==
  /\ \E r \in ReqIds : reqs[r].route = EnrollInfoRoute /\ reqs[r].resp = <<201>>
  /\ \E r \in ReqIds :
       /\ reqs[r].route = EnrolledUpdateRoute
       /\ reqs[r].pid = 3
       /\ reqs[r].resp = <<200>>
  /\ classes[1].enrolled = 1
  /\ Cardinality(EnrollmentsOf(3)) = 1

\* the handler of DELETE /my-class-delete/:id sends its answer in this step
DeleteAnswers(r) ==
  /\ reqs[r].route = MyClassDeleteRoute
  /\ reqs[r].pc # "done"
  /\ reqs'[r].pc = "done"
  /\ Has(reqs'[r], H)

\* classes holds a class with this id
Existed(id) == \E i \in 1..Len(classes) : classes[i].id = id

\* the class with this id is gone in the next state and every other class
\* is as it was, in the same order
Removed(id) ==
  /\ Len(classes') = Len(classes) - 1
  /\ \A i \in 1..Len(classes') : classes'[i].id # id
  /\ \A i \in 1..Len(classes) :
       classes[i].id # id => \E j \in 1..Len(classes') : classes'[j] = classes[i]

\* C30: DELETE /my-class-delete/:id by a caller that passed the teacher gate
\* answers 200 exactly when a class with that id existed and was removed,
\* and 404 otherwise; it removes no other record.
C30_DeleteIs200Or404 ==
  [][\A r \in ReqIds :
       DeleteAnswers(r)
         => /\ (reqs'[r].resp = <<200>>) <=> (Existed(reqs[r].pid) /\ Removed(reqs[r].pid))
            /\ (reqs'[r].resp # <<200>>)
                 => (reqs'[r].resp = <<404>> /\ classes' = classes)]_vars

\* C30, amended: the answer is 200 exactly when a class with that id existed
\* and was removed, whichever teacher's email it carries; 404 exactly when
\* the id is well-formed, the store answered and no class has the id; 500
\* when the id is malformed or the store failed; in the last two cases no
\* class changes, and a class is deleted once only.
C30_DeleteOutcomes ==
  /\ [][\A r \in ReqIds :
          DeleteAnswers(r)
            => LET id == reqs[r].pid
                   broken == id = BadId \/ reqs'[r].failed
               IN /\ (reqs'[r].resp = <<200>>)
                       <=> (~broken /\ Existed(id) /\ Removed(id))
                  /\ (reqs'[r].resp = <<404>>) <=> (~broken /\ ~Existed(id))
                  /\ (reqs'[r].resp = <<500>>) <=> broken
                  /\ (reqs'[r].resp # <<200>>) => classes' = classes
                  /\ UNCHANGED <<users, teacherRequests, enrolls, intents>>]_vars
  /\ [](\A r1, r2 \in ReqIds :
          (/\ r1 # r2
           /\ reqs[r1].route = MyClassDeleteRoute
           /\ reqs[r2].route = MyClassDeleteRoute
           /\ reqs[r1].pid = reqs[r2].pid)
            => ~(reqs[r1].resp = <<200>> /\ reqs[r2].resp = <<200>>))

\* the teacher b@x.com deleted the class of a@x.com and the same delete sent
\* again was answered 404
C30_Witness ==
  \E r1, r2 \in ReqIds :
    /\ \A r \in {r1, r2} :
         /\ reqs[r].route = MyClassDeleteRoute
         /\ reqs[r].token = Str(TokB)
         /\ reqs[r].pid = 5
    /\ reqs[r1].resp = <<200>>
    /\ reqs[r2].resp = <<404>>
    /\ classes = <<ClassDoc(3, "pending", 2)>>

====
